---- MODULE Spec2Model ----
(***************************************************************************)
(* Transaction matcher: the matching and aging engine (utils/parsers), the *)
(* application store (hooks/useAppData) and the upload batches             *)
(* (components/UploadSection).                                             *)
(*                                                                         *)
(* Numbers.  A JavaScript number is an integer here, or NaN.  Amounts are  *)
(* counted in thousandths of the currency unit (12.50 is 12500).  A        *)
(* timestamp (Date.getTime) is counted in minutes, so that the code's day  *)
(* length 1000 * 60 * 60 * 24 ms is DayLength minutes.                     *)
(*                                                                         *)
(* Dates.  A stored date string of the shape YYYY-MM-DD is the number of   *)
(* its day (days since the first day of the model's calendar), parsed by   *)
(* `new Date` as midnight UTC of that day.  InvalidDate stands for a       *)
(* string of that shape which is no calendar date (normalizeDate turns     *)
(* 13/45/2024 into 2024-13-45 without validating it): `new Date` of it is  *)
(* an Invalid Date, whose getTime is NaN.                                  *)
(***************************************************************************)
EXTENDS Integers, Sequences, FiniteSets, TLC

VARIABLES
    bankTransactions,   \* useAppData: stored BankTransaction[]
    jobberReceipts,     \* useAppData: stored JobberReceipt[]
    matches,            \* useAppData: stored Match[]
    bankJob,            \* UploadSection: the onBankDrop invocation in flight
    jobberJob,          \* UploadSection: the onJobberDrop invocation in flight
    bankStatus,         \* UploadSection: bankStatus
    jobberStatus,       \* UploadSection: jobberStatus
    isBankLoading,      \* UploadSection: isBankLoading
    isJobberLoading,    \* UploadSection: isJobberLoading
    timers,             \* UploadSection: the pending clearStatus timeouts
    started,            \* the number of batches dropped per panel, and of removals, so far
    nextId,             \* generateId: the next fresh identifier, per prefix
    clock,              \* the wall clock (new Date()), in minutes
    call                \* a call of a pure engine function: arguments, results

vars == <<bankTransactions, jobberReceipts, matches, bankJob, jobberJob,
          bankStatus, jobberStatus, isBankLoading, isJobberLoading, timers,
          started, nextId, clock, call>>

\* the state of the application
appVars == <<bankTransactions, jobberReceipts, matches, bankJob, jobberJob,
             bankStatus, jobberStatus, isBankLoading, isJobberLoading, timers,
             started>>

storeVars == <<bankTransactions, jobberReceipts, matches>>
bankPanelVars == <<bankJob, bankStatus, isBankLoading>>
jobberPanelVars == <<jobberJob, jobberStatus, isJobberLoading>>

-----------------------------------------------------------------------------
(* Bounds of the model *)

\* most bank transactions in one argument list of an engine call
MaxBank == 2
\* most receipts in one argument list of an engine call
MaxReceipts == 3

-----------------------------------------------------------------------------
(* JavaScript numbers *)

\* NaN: the value of getTime() of an Invalid Date, and of arithmetic on it
NaN == -1000000000

\* the number of timestamp units in a day: (1000 * 60 * 60 * 24) ms
DayLength == 60 * 24

\* a date string that `new Date` cannot parse
InvalidDate == -1

\* a - b
Minus(a, b) == IF a = NaN \/ b = NaN THEN NaN ELSE a - b

\* Math.floor(a / n), n > 0
FloorDiv(a, n) == IF a = NaN THEN NaN ELSE a \div n

\* Math.abs(a)
Abs(a) == IF a = NaN THEN NaN ELSE IF a < 0 THEN 0 - a ELSE a

\* a <= b: false when either is NaN
Leq(a, b) == a # NaN /\ b # NaN /\ a <= b

\* a >= b: false when either is NaN
Geq(a, b) == a # NaN /\ b # NaN /\ a >= b

\* new Date(dateStr).getTime()
getTime(date) == IF date = InvalidDate THEN NaN ELSE date * DayLength

-----------------------------------------------------------------------------
(* Sequences *)

Range(s) == {s[i] : i \in 1..Len(s)}

\* the sequences over S of length at most n
SeqUpTo(S, n) == UNION {[1..k -> S] : k \in 0..n}

-----------------------------------------------------------------------------
(* utils/parsers: the matching engine *)

\* the date gap, in days, up to which a Match is "exact"
ExactDays == 7

\* Array.prototype.sort, step SortCompare: the comparator's result, NaN as +0
SortCompare(v) == IF v = NaN THEN 0 ELSE v

\* the comparator of the sort of the receipts: b's time minus a's time
compareReceipts(a, b) == SortCompare(Minus(getTime(b.date), getTime(a.date)))

\* Array.prototype.sort: whether the comparator is a consistent comparison
\* function for the elements of s (otherwise the order is implementation-defined)
ConsistentComparator(s) ==
    \A a \in Range(s), b \in Range(s), c \in Range(s) :
        /\ compareReceipts(a, a) = 0
        /\ (compareReceipts(a, b) < 0) = (compareReceipts(b, a) > 0)
        /\ (compareReceipts(a, b) = 0 /\ compareReceipts(b, c) = 0
                => compareReceipts(a, c) = 0)
        /\ (compareReceipts(a, b) < 0 /\ compareReceipts(b, c) < 0
                => compareReceipts(a, c) < 0)
        /\ (compareReceipts(a, b) > 0 /\ compareReceipts(b, c) > 0
                => compareReceipts(a, c) > 0)

\* [...jobberReceipts].sort(comparator): the orders the sort can return.  With a
\* consistent comparator the sort is stable and the order is unique.  Otherwise
\* the order is implementation-defined: any permutation that a comparison sort
\* can stop at, in which no element is followed by one that the comparator
\* puts before it.
sortedReceipts(receipts) ==
    LET n == Len(receipts)
        arrange(p) == [i \in 1..n |-> receipts[p[i]]]
        stable(p) ==
            \A i \in 1..n, j \in 1..n :
                i < j =>
                    LET c == compareReceipts(receipts[p[i]], receipts[p[j]])
                    IN  c < 0 \/ (c = 0 /\ p[i] < p[j])
        settled(p) ==
            \A i \in 1..(n - 1) :
                compareReceipts(receipts[p[i]], receipts[p[i + 1]]) <= 0
    IN  IF ConsistentComparator(receipts)
        THEN {arrange(p) : p \in {q \in Permutations(1..n) : stable(q)}}
        ELSE {arrange(p) : p \in {q \in Permutations(1..n) : settled(q)}}

\* bankByAmount with the amount key dropped: every bank transaction is a candidate
bankByAmountAnyAmount(banks, amount) == banks

\* bankByAmount built from the debits only
bankByAmountDebitsOnly(banks, amount) ==
    SelectSeq(banks, LAMBDA bt : bt.amount = amount /\ bt.type = "debit")

\* bankByAmount.get(amount) || []: the bank transactions of that amount, in
\* input order
bankByAmount(banks, amount) == SelectSeq(banks, LAMBDA bt : bt.amount = amount)

\* candidates.find without the usedBankIds test: the first candidate
findUnusedIgnoringUsed(candidates, usedBankIds) ==
    IF Len(candidates) > 0 THEN 1 ELSE 0

\* candidates.find that looks at the first candidate only
findUnusedFirstOnly(candidates, usedBankIds) ==
    IF Len(candidates) > 0 /\ candidates[1].id \notin usedBankIds THEN 1 ELSE 0

\* candidates.find(bt => !usedBankIds.has(bt.id)): the index of the first
\* candidate not yet used, 0 when find returns undefined
findUnused(candidates, usedBankIds) ==
    IF \E i \in 1..Len(candidates) : candidates[i].id \notin usedBankIds
    THEN CHOOSE i \in 1..Len(candidates) :
            /\ candidates[i].id \notin usedBankIds
            /\ \A j \in 1..(i - 1) : candidates[j].id \in usedBankIds
    ELSE 0

\* newMatch with the day gap counted from the time of the run
newMatchSinceNow(bt, receipt, now, id) ==
    LET daysDiff == Abs(FloorDiv(Minus(now, getTime(receipt.date)), DayLength))
    IN  [id |-> id,
         bankId |-> bt.id,
         receiptId |-> receipt.id,
         amount |-> receipt.amount,
         matchDate |-> now,
         confidence |-> IF Leq(daysDiff, ExactDays) THEN "exact" ELSE "fuzzy",
         daysSinceMatch |-> daysDiff]

\* the Match pushed for a receipt and the candidate found for it
newMatch(bt, receipt, now, id) ==
    LET daysDiff ==
            Abs(FloorDiv(Minus(getTime(bt.date), getTime(receipt.date)), DayLength))
    IN  [id |-> id,
         bankId |-> bt.id,
         receiptId |-> receipt.id,
         amount |-> receipt.amount,
         matchDate |-> now,
         confidence |-> IF Leq(daysDiff, ExactDays) THEN "exact" ELSE "fuzzy",
         daysSinceMatch |-> daysDiff]

\* the loop over sortedReceipts, from its i-th receipt on
RECURSIVE matchLoop(_, _, _, _, _, _, _, _)
matchLoop(banks, sorted, i, usedBankIds, usedReceiptIds, acc, now, seed) ==
    IF i > Len(sorted) THEN acc
    ELSE
        LET receipt == sorted[i]
            candidates == bankByAmount(banks, receipt.amount)
            k == findUnused(candidates, usedBankIds)
        IN  IF receipt.id \in usedReceiptIds \/ k = 0
            THEN matchLoop(banks, sorted, i + 1, usedBankIds, usedReceiptIds,
                           acc, now, seed)
            ELSE matchLoop(banks, sorted, i + 1,
                           usedBankIds \cup {candidates[k].id},
                           usedReceiptIds \cup {receipt.id},
                           Append(acc, newMatch(candidates[k], receipt, now,
                                                seed + Len(acc))),
                           now, seed)

\* findExactMatches(bankTransactions, jobberReceipts), given the order `sorted`
\* that the sort returned, the time `now` and the first identifier `seed` that
\* generateId hands out
findExactMatches(banks, sorted, now, seed) ==
    matchLoop(banks, sorted, 1, {}, {}, <<>>, now, seed)

\* the (bankId, receiptId) pairs of a Match list
Pairs(ms) == {<<ms[i].bankId, ms[i].receiptId>> : i \in 1..Len(ms)}

\* a Match without the fields that generateId and the clock give it
Outcome(m) == [bankId |-> m.bankId, receiptId |-> m.receiptId, amount |-> m.amount,
               confidence |-> m.confidence, daysSinceMatch |-> m.daysSinceMatch]

Outcomes(ms) == [i \in 1..Len(ms) |-> Outcome(ms[i])]

-----------------------------------------------------------------------------
(* utils/parsers: the aging buckets *)

\* Infinity, the maxDays of the last bucket: above every number of days
Infinity == 1000000000

\* the buckets that getAgingBuckets starts from
buckets ==
    << [range |-> "0-7", label |-> "Current", minDays |-> 0, maxDays |-> 7,
        transactions |-> <<>>, totalAmount |-> 0],
       [range |-> "8-14", label |-> "Warning", minDays |-> 8, maxDays |-> 14,
        transactions |-> <<>>, totalAmount |-> 0],
       [range |-> "15-30", label |-> "Attention", minDays |-> 15, maxDays |-> 30,
        transactions |-> <<>>, totalAmount |-> 0],
       [range |-> "31-60", label |-> "Critical", minDays |-> 31, maxDays |-> 60,
        transactions |-> <<>>, totalAmount |-> 0],
       [range |-> "60+", label |-> "Overdue", minDays |-> 61, maxDays |-> Infinity,
        transactions |-> <<>>, totalAmount |-> 0] >>

\* Math.floor((now.getTime() - new Date(t.date).getTime()) / (1000 * 60 * 60 * 24))
agingDays(t, now) == FloorDiv(Minus(now, getTime(t.date)), DayLength)

\* the bucket test with the upper bound excluded
inBucketBelowMax(b, days) == Geq(days, b.minDays) /\ days # NaN /\ days < b.maxDays

\* days >= b.minDays && days <= b.maxDays
inBucket(b, days) == Geq(days, b.minDays) /\ Leq(days, b.maxDays)

\* buckets.find(...) || buckets[0]: the fallback is the first bucket
bucketOfFallingToFirst(bs, days) ==
    IF \E i \in 1..Len(bs) : inBucket(bs[i], days)
    THEN CHOOSE i \in 1..Len(bs) :
            /\ inBucket(bs[i], days)
            /\ \A j \in 1..(i - 1) : ~inBucket(bs[j], days)
    ELSE 1

\* buckets.find(...) || buckets[buckets.length - 1]: the index of the bucket
bucketOf(bs, days) ==
    IF \E i \in 1..Len(bs) : inBucket(bs[i], days)
    THEN CHOOSE i \in 1..Len(bs) :
            /\ inBucket(bs[i], days)
            /\ \A j \in 1..(i - 1) : ~inBucket(bs[j], days)
    ELSE Len(bs)

\* the forEach with `bucket.totalAmount = t.amount` for `+=`
RECURSIVE agingLoopLastAmount(_, _, _, _)
agingLoopLastAmount(transactions, i, bs, now) ==
    IF i > Len(transactions) THEN bs
    ELSE
        LET t == transactions[i]
            k == bucketOf(bs, agingDays(t, now))
        IN  agingLoopLastAmount(transactions, i + 1,
                                [bs EXCEPT ![k].transactions = Append(@, t),
                                           ![k].totalAmount = t.amount],
                                now)

\* transactions.forEach(...), from the i-th transaction on
RECURSIVE agingLoop(_, _, _, _)
agingLoop(transactions, i, bs, now) ==
    IF i > Len(transactions) THEN bs
    ELSE
        LET t == transactions[i]
            k == bucketOf(bs, agingDays(t, now))
        IN  agingLoop(transactions, i + 1,
                      [bs EXCEPT ![k].transactions = Append(@, t),
                                 ![k].totalAmount = @ + t.amount],
                      now)

\* getAgingBuckets(transactions), called at the time `now`
getAgingBuckets(transactions, now) == agingLoop(transactions, 1, buckets, now)

\* getDaysSince(dateStr), called at the time `now`
getDaysSince(date, now) == FloorDiv(Minus(now, getTime(date)), DayLength)

\* UnmatchedView.getAgingColor(days): the colour of the badge of a row, named by
\* the bucket that has this background
getAgingColor(days) ==
    IF Leq(days, 7) THEN "green"
    ELSE IF Leq(days, 14) THEN "yellow"
    ELSE IF Leq(days, 30) THEN "orange"
    ELSE IF Leq(days, 60) THEN "red"
    ELSE "dark red"

-----------------------------------------------------------------------------
(* JavaScript strings.  A string is the sequence of its characters; the     *)
(* empty string is <<>>.  Numbers read from strings are counted in          *)
(* thousandths, like the amounts.                                           *)

UpperLetters == <<"A", "B", "C", "D", "E", "F", "G", "H", "I", "J", "K", "L", "M",
                  "N", "O", "P", "Q", "R", "S", "T", "U", "V", "W", "X", "Y", "Z">>
LowerLetters == <<"a", "b", "c", "d", "e", "f", "g", "h", "i", "j", "k", "l", "m",
                  "n", "o", "p", "q", "r", "s", "t", "u", "v", "w", "x", "y", "z">>
DigitChars == <<"0", "1", "2", "3", "4", "5", "6", "7", "8", "9">>

\* the least and the greatest element of a non-empty set of integers
SetMin(S) == CHOOSE x \in S : \A y \in S : x <= y
SetMax(S) == CHOOSE x \in S : \A y \in S : x >= y

\* the position of a character in an alphabet
PositionIn(alphabet, c) == CHOOSE i \in 1..Len(alphabet) : alphabet[i] = c

\* the character classes \d, \s, [a-z], [A-Z] and \w of the regular expressions
Digits == {DigitChars[i] : i \in 1..10}
Lower == {LowerLetters[i] : i \in 1..26}
Upper == {UpperLetters[i] : i \in 1..26}
isDigit(c) == c \in Digits
isSpace(c) == c \in {" ", "\t"}
isLower(c) == c \in Lower
isUpper(c) == c \in Upper
isWord(c) == isDigit(c) \/ isLower(c) \/ isUpper(c) \/ c = "_"

\* the lower case of each upper-case letter, the upper case of each lower-case one
lowerCase == [c \in Upper |-> LowerLetters[PositionIn(UpperLetters, c)]]
upperCase == [c \in Lower |-> UpperLetters[PositionIn(LowerLetters, c)]]

\* String.prototype.toLowerCase and toUpperCase
toLowerCase(s) == [i \in 1..Len(s) |-> IF isUpper(s[i]) THEN lowerCase[s[i]] ELSE s[i]]
toUpperCase(s) == [i \in 1..Len(s) |-> IF isLower(s[i]) THEN upperCase[s[i]] ELSE s[i]]

\* the positions of s whose character is no white space
inked(s) == {i \in 1..Len(s) : ~isSpace(s[i])}

\* s between the least and the greatest of the positions, '' if there is none
between(s, positions) ==
    IF positions = {} THEN <<>> ELSE SubSeq(s, SetMin(positions), SetMax(positions))

\* String.prototype.trim
trim(s) == between(s, inked(s))

\* String.prototype.includes, startsWith and endsWith
includes(s, part) ==
    \E i \in 1..(Len(s) - Len(part) + 1) : SubSeq(s, i, i + Len(part) - 1) = part
startsWith(s, part) == Len(part) <= Len(s) /\ SubSeq(s, 1, Len(part)) = part
endsWith(s, part) ==
    Len(part) <= Len(s) /\ SubSeq(s, Len(s) - Len(part) + 1, Len(s)) = part

\* String.prototype.split at the characters of a set
RECURSIVE split(_, _)
split(s, separators) ==
    LET at == {i \in 1..Len(s) : s[i] \in separators}
    IN  IF at = {}
        THEN <<s>>
        ELSE <<SubSeq(s, 1, SetMin(at) - 1)>>
                \o split(SubSeq(s, SetMin(at) + 1, Len(s)), separators)

\* String.prototype.padStart(2, '0')
padStart2(s) == IF Len(s) < 2 THEN <<"0">> \o s ELSE s

\* the number that a string of digits writes
RECURSIVE digitsValue(_)
digitsValue(s) ==
    IF s = <<>> THEN 0
    ELSE digitsValue(SubSeq(s, 1, Len(s) - 1)) * 10
            + (PositionIn(DigitChars, s[Len(s)]) - 1)

\* the number of digits that a string starts with
leadingDigits(s) ==
    LET other == {i \in 1..Len(s) : ~isDigit(s[i])}
    IN  IF other = {} THEN Len(s) ELSE SetMin(other) - 1

\* the digits that a string starts with
digitsAhead(s) == SubSeq(s, 1, leadingDigits(s))

\* the thousandths that the digits after a decimal point write (digits after
\* the third one are dropped)
thousandths(digits) == digitsValue(SubSeq(digits \o <<"0", "0", "0">>, 1, 3))

\* the number written by the digits before and the digits after the point:
\* NaN when there is no digit
decimal(whole, fraction) ==
    IF whole = <<>> /\ fraction = <<>> THEN NaN
    ELSE digitsValue(whole) * 1000 + thousandths(fraction)

\* the number written by digits and what follows them: a point and digits
pointed(whole, rest) ==
    IF rest # <<>> /\ rest[1] = "."
    THEN decimal(whole, digitsAhead(Tail(rest)))
    ELSE decimal(whole, <<>>)

\* the number at the start of a string without sign
unsigned(u) == pointed(digitsAhead(u), SubSeq(u, leadingDigits(u) + 1, Len(u)))

\* the number at the start of a string that starts with no white space
signed(t) ==
    IF t # <<>> /\ t[1] = "-" THEN Minus(0, unsigned(Tail(t)))
    ELSE IF t # <<>> /\ t[1] = "+" THEN unsigned(Tail(t))
    ELSE unsigned(t)

\* s from its first character that is no white space on
trimStart(s) == IF inked(s) = {} THEN <<>> ELSE SubSeq(s, SetMin(inked(s)), Len(s))

\* parseFloat: leading white space, a sign, digits, a point and digits; what
\* follows is ignored; NaN when there is no digit.  (No exponent, no Infinity.)
parseFloat(s) == signed(trimStart(s))

-----------------------------------------------------------------------------
(* utils/parsers: normalizeDate *)

\* [\/\-]
DateSeparators == {"/", "-"}

allDigits(s) == \A i \in 1..Len(s) : isDigit(s[i])

\* /^\d{4}-\d{2}-\d{2}$/
isoShape(s) ==
    /\ Len(s) = 10
    /\ s[5] = "-" /\ s[8] = "-"
    /\ \A i \in {1, 2, 3, 4, 6, 7, 9, 10} : isDigit(s[i])

\* /^(\d{1,2})[\/\-](\d{1,2})[\/\-](\d{n})$/ on a string whose parts between
\* the separators are g
monthDayYear(g, n) ==
    /\ Len(g) = 3
    /\ \A i \in 1..3 : allDigits(g[i])
    /\ Len(g[1]) \in {1, 2} /\ Len(g[2]) \in {1, 2} /\ Len(g[3]) = n

\* `${y}-${m.padStart(2, '0')}-${d.padStart(2, '0')}`
isoDate(y, m, d) == y \o <<"-">> \o padStart2(m) \o <<"-">> \o padStart2(d)

\* the pivot one year early: parseInt(y) < 49
fullYearPivot49(y) == (IF digitsValue(y) < 49 THEN <<"2", "0">> ELSE <<"1", "9">>) \o y

\* parseInt(y) < 50 ? `20${y}` : `19${y}`
fullYear(y) == (IF digitsValue(y) < 50 THEN <<"2", "0">> ELSE <<"1", "9">>) \o y

\* new Date(dateStr), then toISOString().split('T')[0], or '' for an Invalid
\* Date, for a string that none of the three patterns matches.  A string
\* without a digit is an Invalid Date.  How any other string is read is left to
\* the engine, and the day depends on the time zone: the host gives the outcome.
nativeDate(dateStr, host) ==
    IF \A i \in 1..Len(dateStr) : ~isDigit(dateStr[i]) THEN <<>> ELSE host.native

\* normalizeDate on a trimmed string that is not of the ISO shape, whose parts
\* between the separators are g
normalizeParts(s, g, host) ==
    IF monthDayYear(g, 4) THEN isoDate(g[3], g[1], g[2])
    ELSE IF monthDayYear(g, 2) THEN isoDate(fullYear(g[3]), g[1], g[2])
    ELSE nativeDate(s, host)

\* normalizeDate on a trimmed string
normalizeTrimmed(s, host) ==
    IF isoShape(s) THEN s ELSE normalizeParts(s, split(s, DateSeparators), host)

normalizeDate(dateStr, host) ==
    IF dateStr = <<>> THEN <<>> ELSE normalizeTrimmed(trim(dateStr), host)

-----------------------------------------------------------------------------
(* utils/parsers: the receipt parser *)

\* what parsing one file comes to: the records parsed, or the message of the
\* error thrown
Parsed(rows) == [ok |-> TRUE, rows |-> rows]
Failed(message) == [ok |-> FALSE, message |-> message]

\* s.replace(/[^a-z0-9\s]/g, '')
lettersOnly(s) == SelectSeq(s, LAMBDA c : isLower(c) \/ isDigit(c) \/ isSpace(c))

\* a transformation that leaves the case of the header
transformHeaderKeepingCase(header) == lettersOnly(trim(header))

\* header.trim().toLowerCase().replace(/[^a-z0-9\s]/g, '')
transformHeader(header) == lettersOnly(toLowerCase(trim(header)))

\* name.toLowerCase().replace(/[^a-z0-9\s]/g, '')
normalizedName(name) == lettersOnly(toLowerCase(name))

\* the cell of a line under the column index, '' when the line is shorter
cellAt(line, index) == IF index <= Len(line) THEN line[index] ELSE <<>>

\* the row object of a line: the value under each header (of two columns of
\* the same header, the later one)
rowData(headers, line) ==
    [h \in Range(headers) |->
        cellAt(line, SetMax({i \in 1..Len(headers) : headers[i] = h}))]

\* row[field], '' when the row has no such key (undefined and '' are both falsy)
property(row, field) == IF field \in DOMAIN row THEN row[field] ELSE <<>>

dateFields ==
    <<<<"d", "a", "t", "e">>, <<"r", "e", "p", "o", "r", "t", "d", "a", "t", "e">>, <<"r", "e", "p", "o", "r", "t", " ", "d", "a", "t", "e">>, <<"e", "x", "p", "e", "n", "s", "e", "d", "a", "t", "e">>,
      <<"e", "x", "p", "e", "n", "s", "e", " ", "d", "a", "t", "e">>, <<"t", "r", "a", "n", "s", "a", "c", "t", "i", "o", "n", "d", "a", "t", "e">>, <<"t", "r", "a", "n", "s", "a", "c", "t", "i", "o", "n", " ", "d", "a", "t", "e">>,
      <<"c", "r", "e", "a", "t", "e", "d">>, <<"s", "u", "b", "m", "i", "t", "t", "e", "d">>, <<"d", "a", "t", "e", "c", "r", "e", "a", "t", "e", "d">>, <<"d", "a", "t", "e", " ", "c", "r", "e", "a", "t", "e", "d">>>>

amountFields ==
    <<<<"a", "m", "o", "u", "n", "t">>, <<"t", "o", "t", "a", "l">>, <<"t", "o", "t", "a", "l", "a", "m", "o", "u", "n", "t">>, <<"t", "o", "t", "a", "l", " ", "a", "m", "o", "u", "n", "t">>, <<"c", "o", "s", "t">>,
      <<"v", "a", "l", "u", "e">>, <<"p", "r", "i", "c", "e">>, <<"e", "x", "p", "e", "n", "s", "e", "a", "m", "o", "u", "n", "t">>, <<"e", "x", "p", "e", "n", "s", "e", " ", "a", "m", "o", "u", "n", "t">>, <<"e", "x", "p", "e", "n", "s", "e">>>>

employeeFieldsExcel ==
    <<<<"e", "m", "p", "l", "o", "y", "e", "e">>, <<"t", "e", "a", "m", "m", "e", "m", "b", "e", "r">>, <<"t", "e", "a", "m", " ", "m", "e", "m", "b", "e", "r">>, <<"s", "u", "b", "m", "i", "t", "t", "e", "d", "b", "y">>,
      <<"s", "u", "b", "m", "i", "t", "t", "e", "d", " ", "b", "y">>, <<"u", "s", "e", "r">>, <<"s", "t", "a", "f", "f">>, <<"p", "e", "r", "s", "o", "n">>, <<"n", "a", "m", "e">>>>

employeeFieldsCSV ==
    <<<<"e", "m", "p", "l", "o", "y", "e", "e">>, <<"t", "e", "a", "m", "m", "e", "m", "b", "e", "r">>, <<"s", "u", "b", "m", "i", "t", "t", "e", "d", "b", "y">>, <<"s", "u", "b", "m", "i", "t", "t", "e", "d", " ", "b", "y">>,
      <<"u", "s", "e", "r">>, <<"s", "t", "a", "f", "f">>, <<"p", "e", "r", "s", "o", "n">>, <<"n", "a", "m", "e">>, <<"t", "e", "a", "m", " ", "m", "e", "m", "b", "e", "r">>>>

jobFields ==
    <<<<"j", "o", "b">>, <<"j", "o", "b", "n", "u", "m", "b", "e", "r">>, <<"j", "o", "b", " ", "n", "u", "m", "b", "e", "r">>, <<"p", "r", "o", "j", "e", "c", "t">>, <<"w", "o", "r", "k", "o", "r", "d", "e", "r">>,
      <<"w", "o", "r", "k", " ", "o", "r", "d", "e", "r">>, <<"w", "o">>, <<"s", "i", "t", "e">>, <<"j", "o", "b", " ", "#">>, <<"j", "o", "b", "#">>>>

descriptionFields ==
    <<<<"d", "e", "s", "c", "r", "i", "p", "t", "i", "o", "n">>, <<"e", "x", "p", "e", "n", "s", "e", "n", "a", "m", "e">>, <<"e", "x", "p", "e", "n", "s", "e", " ", "n", "a", "m", "e">>, <<"d", "e", "t", "a", "i", "l", "s">>,
      <<"m", "e", "m", "o">>, <<"n", "o", "t", "e">>, <<"i", "t", "e", "m">>, <<"e", "x", "p", "e", "n", "s", "e">>>>

categoryFields ==
    <<<<"c", "a", "t", "e", "g", "o", "r", "y">>, <<"e", "x", "p", "e", "n", "s", "e", "t", "y", "p", "e">>, <<"e", "x", "p", "e", "n", "s", "e", " ", "t", "y", "p", "e">>, <<"t", "y", "p", "e">>, <<"a", "c", "c", "o", "u", "n", "t">>>>

\* the first string of a sequence that is not empty, '' when there is none:
\* what a loop returns that tries the strings in order
firstNonEmpty(values) ==
    IF \A i \in 1..Len(values) : values[i] = <<>> THEN <<>>
    ELSE values[SetMin({i \in 1..Len(values) : values[i] # <<>>})]

\* the first number of a sequence that is not NaN, made absolute; 0 when there
\* is none
firstNumber(values) ==
    IF \A i \in 1..Len(values) : values[i] = NaN THEN 0
    ELSE Abs(values[SetMin({i \in 1..Len(values) : values[i] # NaN})])

\* extractDate(row): the fields in order; an empty field is skipped and
\* normalizes to '' as well
extractDate(row, host) ==
    firstNonEmpty([i \in 1..Len(dateFields) |->
                        normalizeDate(property(row, dateFields[i]), host)])

\* s.replace(/[$,]/g, '')
plainNumber(s) == SelectSeq(s, LAMBDA c : c \notin {"$", ","})

\* (1,234.56) for negative
unparenthesized(cleaned) ==
    IF startsWith(cleaned, <<"(">>) /\ endsWith(cleaned, <<")">>)
    THEN <<"-">> \o SubSeq(cleaned, 2, Len(cleaned) - 1)
    ELSE cleaned

\* the number that extractAmount reads from one field (NaN from an empty one)
amountOf(value) == parseFloat(unparenthesized(trim(plainNumber(value))))

\* extractAmount(row): the fields in order; an empty field is skipped
extractAmount(row) ==
    firstNumber([i \in 1..Len(amountFields) |->
                    amountOf(property(row, amountFields[i]))])

\* the keys that extractField tries, in order: each name normalized, then as it is
triedKeys(possibleNames) ==
    [k \in 1..(2 * Len(possibleNames)) |->
        IF k % 2 = 1 THEN normalizedName(possibleNames[(k + 1) \div 2])
        ELSE possibleNames[k \div 2]]

\* row[key].trim() for each key
trimmedValues(row, keys) == [k \in 1..Len(keys) |-> trim(property(row, keys[k]))]

extractField(row, possibleNames) ==
    firstNonEmpty(trimmedValues(row, triedKeys(possibleNames)))

\* str.replace(/\b\w/g, char => char.toUpperCase())
capitalizeWords(str) ==
    [i \in 1..Len(str) |->
        IF isWord(str[i]) /\ (i = 1 \/ ~isWord(str[i - 1]))
        THEN toUpperCase(<<str[i]>>)[1] ELSE str[i]]

\* s.substring(0, 150)
substring150(s) == SubSeq(s, 1, IF Len(s) < 150 THEN Len(s) ELSE 150)

\* value || fallback
orElse(value, fallback) == IF value = <<>> THEN fallback ELSE value

\* what is extracted from a row, as the receipt that is pushed for it
receiptOf(row, employeeFields, host) ==
    [id |-> 0,
     date |-> extractDate(row, host),
     employee |-> capitalizeWords(orElse(extractField(row, employeeFields), <<"U", "n", "k", "n", "o", "w", "n">>)),
     job |-> toUpperCase(orElse(extractField(row, jobFields), <<"G", "e", "n", "e", "r", "a", "l">>)),
     amount |-> extractAmount(row),
     description |-> substring150(extractField(row, descriptionFields)),
     category |-> extractField(row, categoryFields)]

\* a test on the date alone
receiptAcceptedAnyAmount(receipt) == receipt.date # <<>>

\* date && amount > 0
receiptAccepted(receipt) == receipt.date # <<>> /\ receipt.amount > 0

\* the records pushed take the next ids, in order
numbered(records, base) ==
    [i \in 1..Len(records) |-> [records[i] EXCEPT !.id = base + i]]

\* the rows of the table one after another: the receipts pushed
receiptsOf(rows, employeeFields, host, base) ==
    numbered(SelectSeq([i \in 1..Len(rows) |-> receiptOf(rows[i], employeeFields, host)],
                       receiptAccepted),
             base)

\* the lines of a table that are not empty
nonEmptyLines(lines) == SelectSeq(lines, LAMBDA line : line # <<>>)

\* String(row[index] || '').trim(), for every cell of every line
trimmedLines(lines) ==
    [n \in 1..Len(lines) |-> [i \in 1..Len(lines[n]) |-> trim(lines[n][i])]]

\* the header of each column
headersOf(line) == [i \in 1..Len(line) |-> transformHeader(line[i])]

\* the row objects of the lines
tableRows(headers, lines) == [n \in 1..Len(lines) |-> rowData(headers, lines[n])]

\* parseJobberExcel(file): jsonData is the sheet as lines of cells
parseJobberExcel(jsonData, host, base) ==
    IF Len(jsonData) < 2
    THEN Failed("Excel file appears to be empty or has no data rows")
    ELSE Parsed(receiptsOf(tableRows(headersOf(jsonData[1]),
                                     trimmedLines(nonEmptyLines(Tail(jsonData)))),
                           employeeFieldsExcel, host, base))

\* results.data: Papa.parse with header: true and skipEmptyLines: true makes
\* the first non-empty line the header and every later one a row
papaData(lines) ==
    IF lines = <<>> THEN <<>> ELSE tableRows(headersOf(Head(lines)), Tail(lines))

\* the end of the callback `complete`
receiptsOrError(receipts) ==
    IF Len(receipts) = 0
    THEN Failed("No valid receipts found in file. Please check the column headers.")
    ELSE Parsed(receipts)

\* the callback `complete` on results.data
complete(data, host, base) ==
    IF Len(data) = 0
    THEN Failed("CSV file appears to be empty")
    ELSE receiptsOrError(receiptsOf(data, employeeFieldsCSV, host, base))

\* parseJobberCSV(file)
parseJobberCSV(text, host, base) == complete(papaData(nonEmptyLines(text)), host, base)

\* text.includes(',') || text.includes('\t'): a line of several cells is
\* written with commas between them
hasSeparator(text) ==
    \E i \in 1..Len(text) :
        \/ Len(text[i]) > 1
        \/ \E j \in 1..Len(text[i]) :
            \E n \in 1..Len(text[i][j]) : text[i][j][n] \in {",", "\t"}

\* parseJobberFile(file) on the lower-case name of the file: the CSV parser
\* for the extension .csv and for any other file whose text has a separator
parseNamed(fileName, content, host, base) ==
    IF endsWith(fileName, <<".", "x", "l", "s", "x">>) \/ endsWith(fileName, <<".", "x", "l", "s">>)
    THEN parseJobberExcel(content, host, base)
    ELSE IF endsWith(fileName, <<".", "c", "s", "v">>) \/ hasSeparator(content)
    THEN parseJobberCSV(content, host, base)
    ELSE Failed("Unsupported file format. Please upload CSV or Excel files (.csv, .xlsx, .xls)")

parseJobberFile(file, host, base) ==
    parseNamed(toLowerCase(file.name), file.content, host, base)

-----------------------------------------------------------------------------
(* utils/parsers: the bank statement parser, CSV mode *)

headerKeywords ==
    <<<<"d", "a", "t", "e">>, <<"d", "e", "s", "c", "r", "i", "p", "t", "i", "o", "n">>, <<"a", "m", "o", "u", "n", "t">>, <<"b", "a", "l", "a", "n", "c", "e">>, <<"t", "r", "a", "n", "s", "a", "c", "t", "i", "o", "n">>,
      <<"p", "o", "s", "t", "i", "n", "g">>>>

\* s.split(/\s+/).length: one more than the number of runs of white space
tokenCount(s) ==
    1 + Cardinality({i \in 1..Len(s) :
                        isSpace(s[i]) /\ (i = Len(s) \/ ~isSpace(s[i + 1]))})

\* isHeaderLine on the lower-case line
isHeaderLower(lower) ==
    /\ \E k \in 1..Len(headerKeywords) : includes(lower, headerKeywords[k])
    /\ tokenCount(lower) <= 5

isHeaderLine(line) == isHeaderLower(toLowerCase(line))

\* p.replace(/["']$/, ''): without a quote at the end
stripEnd(q) ==
    IF q # <<>> /\ q[Len(q)] \in {"\"", "'"} THEN SubSeq(q, 1, Len(q) - 1) ELSE q

\* p.replace(/^["']|["']$/g, ''): without a quote at the start and without a
\* quote at the end
stripQuotes(p) ==
    IF p # <<>> /\ p[1] \in {"\"", "'"} THEN stripEnd(Tail(p)) ELSE stripEnd(p)

\* fields.map(p => p.trim().replace(/^["']|["']$/g, ''))
strippedFields(fields) == [i \in 1..Len(fields) |-> stripQuotes(trim(fields[i]))]

\* trimmed.split(',').map(p => p.trim().replace(/^["']|["']$/g, ''))
csvParts(trimmed) == strippedFields(split(trimmed, {","}))

\* parseFloat(parts[parts.length - 1].replace(/[$,]/g, ''))
csvAmount(parts) == parseFloat(plainNumber(parts[Len(parts)]))

\* a test without the length of the description
csvAcceptedAnyDescription(date, amount, description) == date # <<>> /\ amount # NaN

\* the test of parseBankCSV on the date, amount and description of a data row
csvAccepted(date, amount, description) ==
    date # <<>> /\ amount # NaN /\ Len(description) > 2

\* the transaction pushed for an accepted data row
csvTransaction(date, amount, description) ==
    [id |-> 0,
     date |-> date,
     description |-> substring150(description),
     amount |-> Abs(amount),
     type |-> IF amount < 0 THEN "debit" ELSE "credit"]

\* what a data row of the fields parts pushes: nothing, or one transaction
csvRow(parts, host) ==
    IF Len(parts) < 3 THEN <<>>
    ELSE IF csvAccepted(normalizeDate(parts[1], host), csvAmount(parts), parts[2])
    THEN <<csvTransaction(normalizeDate(parts[1], host), csvAmount(parts), parts[2])>>
    ELSE <<>>

\* the loop with the header test made on every line: a later line that passes
\* it is skipped
RECURSIVE csvLoopSkippingHeaders(_, _, _)
csvLoopSkippingHeaders(lines, headerFound, host) ==
    IF lines = <<>> THEN <<>>
    ELSE IF trim(Head(lines)) = <<>>
    THEN csvLoopSkippingHeaders(Tail(lines), headerFound, host)
    ELSE IF isHeaderLine(trim(Head(lines)))
    THEN csvLoopSkippingHeaders(Tail(lines), TRUE, host)
    ELSE IF ~headerFound
    THEN csvLoopSkippingHeaders(Tail(lines), FALSE, host)
    ELSE csvRow(csvParts(trim(Head(lines))), host)
            \o csvLoopSkippingHeaders(Tail(lines), headerFound, host)

\* the loop of parseBankCSV from a line on: what the lines push
RECURSIVE csvLoop(_, _, _)
csvLoop(lines, headerFound, host) ==
    IF lines = <<>> THEN <<>>
    ELSE IF trim(Head(lines)) = <<>>
    THEN csvLoop(Tail(lines), headerFound, host)
    ELSE IF ~headerFound
    THEN csvLoop(Tail(lines), isHeaderLine(trim(Head(lines))), host)
    ELSE csvRow(csvParts(trim(Head(lines))), host)
            \o csvLoop(Tail(lines), headerFound, host)

\* parseBankCSV(text): text is the sequence of the lines of the file
parseBankCSV(text, host, base) == numbered(csvLoop(text, FALSE, host), base)

-----------------------------------------------------------------------------
(* utils/parsers: the bank statement parser, free-text mode *)

\* the date patterns of parseTransactionLine, in order: the separator and the
\* numbers of digits that each group can take
datePatterns ==
    << [separator |-> "/", groups |-> <<{1, 2}, {1, 2}, {4}>>],
       [separator |-> "-", groups |-> <<{1, 2}, {1, 2}, {4}>>],
       [separator |-> "-", groups |-> <<{4}, {1, 2}, {1, 2}>>],
       [separator |-> "/", groups |-> <<{1, 2}, {1, 2}, {2}>>] >>

\* digits, separator, digits, separator, digits of the lengths a, b, c at i
dateAt(line, i, a, b, c, separator) ==
    /\ i + a + b + c + 1 <= Len(line)
    /\ line[i + a] = separator
    /\ line[i + a + b + 1] = separator
    /\ \A n \in i..(i + a - 1) : isDigit(line[n])
    /\ \A n \in (i + a + 1)..(i + a + b) : isDigit(line[n])
    /\ \A n \in (i + a + b + 2)..(i + a + b + c + 1) : isDigit(line[n])

\* the matches of a pattern in a line: the position and the lengths of the groups
matchesOf(line, separator, groups) ==
    {m \in (1..Len(line)) \X groups[1] \X groups[2] \X groups[3] :
        dateAt(line, m[1], m[2], m[3], m[4], separator)}

\* the regular expression finds m rather than n: the leftmost one, each group
\* as long as it can be
preferred(m, n) ==
    \/ m[1] < n[1]
    \/ m[1] = n[1] /\ m[2] > n[2]
    \/ m[1] = n[1] /\ m[2] = n[2] /\ m[3] > n[3]
    \/ m[1] = n[1] /\ m[2] = n[2] /\ m[3] = n[3] /\ m[4] >= n[4]

\* the text that a match covers
matchText(line, m) == SubSeq(line, m[1], m[1] + m[2] + m[3] + m[4] + 1)

\* the text of the match found among all, '' when there is none
foundText(line, all) ==
    IF all = {} THEN <<>>
    ELSE matchText(line, CHOOSE m \in all : \A n \in all : preferred(m, n))

\* line.match(pattern.regex)[0], '' when there is no match
dateMatch(line, pattern) ==
    foundText(line, matchesOf(line, pattern.separator, pattern.groups))

\* match[0] for each date pattern
dateTexts(line) == [k \in 1..Len(datePatterns) |-> dateMatch(line, datePatterns[k])]

\* normalizeDate of each string
normalizedAll(texts, host) == [k \in 1..Len(texts) |-> normalizeDate(texts[k], host)]

\* the date of the line: of the first pattern whose match normalizes
lineDate(texts, host) == firstNonEmpty(normalizedAll(texts, host))

\* where [\d,]+ ends that starts at k
digitsEnd(line, k) ==
    IF \A n \in k..Len(line) : isDigit(line[n]) \/ line[n] = "," THEN Len(line) + 1
    ELSE SetMin({n \in k..Len(line) : ~(isDigit(line[n]) \/ line[n] = ",")})

\* [\d,]+\.\d{2} from k to e: the index of the last character matched, or 0
centsAt(line, k, e) ==
    IF /\ e > k
       /\ e + 2 <= Len(line)
       /\ line[e] = "."
       /\ isDigit(line[e + 1]) /\ isDigit(line[e + 2])
    THEN e + 2 ELSE 0

\* i, or the position after the character c at i
after(line, i, c) == IF i <= Len(line) /\ line[i] = c THEN i + 1 ELSE i

\* \$?[\d,]+\.\d{2} at j
dollarsAt(line, j) == centsAt(line, after(line, j, "$"), digitsEnd(line, after(line, j, "$")))

\* /-?\$?[\d,]+\.\d{2}/ at i: the index of the last character matched, or 0
amountAt(line, i) == dollarsAt(line, after(line, i, "-"))

\* the match that starts at i, and the matches after it
RECURSIVE amountMatches(_, _)
matchesFrom(line, i, end) == <<SubSeq(line, i, end)>> \o amountMatches(line, end + 1)

\* the matches that start at the least of the positions
matchesAmong(line, starts) ==
    IF starts = {} THEN <<>> ELSE matchesFrom(line, SetMin(starts), amountAt(line, SetMin(starts)))

\* line.match(amountPattern) with the flag g: the matches from a position on
amountMatches(line, from) ==
    matchesAmong(line, {i \in from..Len(line) : amountAt(line, i) > 0})

\* s without its part from the position at on, of the length n
cut(s, at, n) == SubSeq(s, 1, at - 1) \o SubSeq(s, at + n, Len(s))

\* s.replace(part, ''): s without the first occurrence of part
replaceFirst(s, part) ==
    IF part = <<>> \/ ~includes(s, part) THEN s
    ELSE cut(s, SetMin({i \in 1..(Len(s) - Len(part) + 1) :
                            SubSeq(s, i, i + Len(part) - 1) = part}), Len(part))

\* s.replace(/[^\w\s-]/g, ' ')
spaced(s) ==
    [i \in 1..Len(s) |-> IF isWord(s[i]) \/ isSpace(s[i]) \/ s[i] = "-" THEN s[i] ELSE " "]

\* s.replace(/\s+/g, ' '): each run of white space becomes one space
RECURSIVE singleSpaced(_)
singleSpaced(s) ==
    IF s = <<>> THEN <<>>
    ELSE IF ~isSpace(s[1]) THEN <<s[1]>> \o singleSpaced(Tail(s))
    ELSE IF Len(s) > 1 /\ isSpace(s[2]) THEN singleSpaced(Tail(s))
    ELSE <<" ">> \o singleSpaced(Tail(s))

\* s.replace(/[^\w\s-]/g, ' ').replace(/\s+/g, ' ').trim()
cleaned(s) == trim(singleSpaced(spaced(s)))

\* the description of a line: without the match of the first date pattern that
\* matches, without the last amount
lineDescription(line, texts, lastAmount) ==
    cleaned(replaceFirst(replaceFirst(line, firstNonEmpty(texts)), lastAmount))

\* the end of parseTransactionLine
describedLine(line, date, amountValue, description) ==
    IF Len(description) < 3 THEN <<>>
    ELSE <<[id |-> 0,
            date |-> date,
            description |-> substring150(description),
            amount |-> Abs(amountValue),
            type |-> IF amountValue < 0 THEN "debit" ELSE "credit",
            rawText |-> line]>>

\* parseTransactionLine from lastAmount on
pricedLine(line, texts, date, lastAmount) ==
    describedLine(line, date, parseFloat(plainNumber(lastAmount)),
                  lineDescription(line, texts, lastAmount))

\* parseTransactionLine from the test of the date on
datedLine(line, texts, date, amounts) ==
    IF date = <<>> THEN <<>>
    ELSE IF amounts = <<>> THEN <<>>
    ELSE pricedLine(line, texts, date, amounts[Len(amounts)])

\* parseTransactionLine on the matches of the date patterns in the line
matchedLine(line, texts, host) ==
    datedLine(line, texts, lineDate(texts, host), amountMatches(line, 1))

\* parseTransactionLine(line): <<>> for null, or the one record (its id is
\* given by parseBankPDF)
parseTransactionLine(line, host) == matchedLine(line, dateTexts(line), host)

\* what a trimmed line pushes in the loop of parseBankPDF
textLine(line, host) ==
    IF line = <<>> \/ isHeaderLine(line) THEN <<>> ELSE parseTransactionLine(line, host)

\* the loop of parseBankPDF over the lines of a file that is no CSV
RECURSIVE textLoop(_, _)
textLoop(lines, host) ==
    IF lines = <<>> THEN <<>>
    ELSE textLine(trim(Head(lines)), host) \o textLoop(Tail(lines), host)

\* parseBankPDF on the lower-case name of the file, once file.text() has given
\* the lines of the file
parseStatement(fileName, content, host, base) ==
    IF endsWith(fileName, <<".", "c", "s", "v">>)
    THEN Parsed(parseBankCSV(content, host, base))
    ELSE Parsed(numbered(textLoop(content, host), base))

parseBankPDF(file, host, base) ==
    parseStatement(toLowerCase(file.name), file.content, host, base)

-----------------------------------------------------------------------------
(* The records that the parsers return *)

\* the records parsed from a list of rows: generateId gives them the identifiers
\* base+1, base+2, ...
BankRecords(rows, base) ==
    [i \in 1..Len(rows) |->
        [id |-> base + i, date |-> rows[i][1], amount |-> rows[i][2],
         type |-> "debit"]]

ReceiptRecords(rows, base) ==
    [i \in 1..Len(rows) |->
        [id |-> base + i, date |-> rows[i][1], amount |-> rows[i][2]]]

-----------------------------------------------------------------------------
(* The application before any upload *)

NoJob == [pc |-> "idle"]
NoStatus == [type |-> "null"]
NoCall == [fn |-> "none"]

AppInit ==
    /\ bankTransactions = <<>>
    /\ jobberReceipts = <<>>
    /\ matches = <<>>
    /\ bankJob = NoJob
    /\ jobberJob = NoJob
    /\ bankStatus = NoStatus
    /\ jobberStatus = NoStatus
    /\ isBankLoading = FALSE
    /\ isJobberLoading = FALSE
    /\ timers = [bank |-> 0, jobber |-> 0]
    /\ started = [bank |-> 0, jobber |-> 0, removals |-> 0]

-----------------------------------------------------------------------------
(* hooks/useAppData: the store and its operations *)

\* the value that a setter of useLocalStorage hands to a functional updater:
\* the collection stored under the key at the time of the call
prev(stored) == stored

\* recalculateMatches(banks, receipts): the new value of matches
recalculateMatches(banks, receipts, newMatches) ==
    \E s \in sortedReceipts(receipts) :
        newMatches = findExactMatches(banks, s, clock, nextId.match)

\* prev.filter(t => t.id !== id), and prev.filter(r => r.id !== id)
withoutId(records, id) == SelectSeq(records, LAMBDA x : x.id # id)

\* the filter of removeBankTransaction letting no match through
withoutAnyMatch(ms, id) == SelectSeq(ms, LAMBDA m : FALSE)

\* prev.filter(m => m.bankId !== id)
withoutBankId(ms, id) == SelectSeq(ms, LAMBDA m : m.bankId # id)

\* prev.filter(m => m.receiptId !== id)
withoutReceiptId(ms, id) == SelectSeq(ms, LAMBDA m : m.receiptId # id)

\* removeBankTransaction(id)
removeBankTransaction(id) ==
    /\ bankTransactions' = withoutId(prev(bankTransactions), id)
    /\ matches' = withoutBankId(prev(matches), id)
    /\ UNCHANGED jobberReceipts

\* removeJobberReceipt(id)
removeJobberReceipt(id) ==
    /\ jobberReceipts' = withoutId(prev(jobberReceipts), id)
    /\ matches' = withoutReceiptId(prev(matches), id)
    /\ UNCHANGED bankTransactions

\* clearAllData()
clearAllData ==
    /\ bankTransactions' = <<>>
    /\ jobberReceipts' = <<>>
    /\ matches' = <<>>

\* Array.prototype.find on the id: <<>> for undefined, or the one record found
find(records, id) ==
    IF \A i \in 1..Len(records) : records[i].id # id THEN <<>>
    ELSE <<records[SetMin({i \in 1..Len(records) : records[i].id = id})]>>

\* unmatchedBank: the transactions whose id no match has as its bankId
unmatchedBank ==
    SelectSeq(bankTransactions,
              LAMBDA bt : bt.id \notin {matches[i].bankId : i \in 1..Len(matches)})

\* matchedPairs: each match with its transaction and its receipt, when both
\* are found
matchedPairs ==
    SelectSeq([i \in 1..Len(matches) |->
                [match |-> matches[i],
                 bank |-> find(bankTransactions, matches[i].bankId),
                 receipt |-> find(jobberReceipts, matches[i].receiptId)]],
              LAMBDA p : p.bank # <<>> /\ p.receipt # <<>>)

\* most calls of removeBankTransaction, removeJobberReceipt and clearAllData,
\* reloads and tab changes in a behaviour
MaxRemovals == 1

\* one more call counted
counted == started' = [started EXCEPT !.removals = @ + 1]

\* the store that an operation is called on
Store == [bankTransactions |-> bankTransactions,
          jobberReceipts |-> jobberReceipts,
          matches |-> matches]

\* addBankTransactions with the new transactions put first
addBankTransactionsNewFirst(transactions, receipts) ==
    LET newTransactions == transactions \o prev(bankTransactions)
    IN  /\ bankTransactions' = newTransactions
        /\ recalculateMatches(newTransactions, receipts, matches')
        /\ UNCHANGED jobberReceipts

\* addBankTransactions(transactions), of the render whose receipts are `receipts`
addBankTransactions(transactions, receipts) ==
    LET newTransactions == prev(bankTransactions) \o transactions
    IN  /\ bankTransactions' = newTransactions
        /\ recalculateMatches(newTransactions, receipts, matches')
        /\ UNCHANGED jobberReceipts

\* addJobberReceipts(receipts), of the render whose transactions are `banks`
addJobberReceipts(receipts, banks) ==
    LET newReceipts == prev(jobberReceipts) \o receipts
    IN  /\ jobberReceipts' = newReceipts
        /\ recalculateMatches(banks, newReceipts, matches')
        /\ UNCHANGED bankTransactions

\* a call of removeBankTransaction on a stored transaction
RemoveBankTransaction ==
    /\ started.removals < MaxRemovals
    /\ counted
    /\ \E id \in {t.id : t \in Range(bankTransactions)} :
        /\ removeBankTransaction(id)
        /\ call' = [fn |-> "removeBankTransaction", id |-> id, store |-> Store]
    /\ UNCHANGED <<bankPanelVars, jobberPanelVars, timers, nextId, clock>>

\* a call of removeJobberReceipt on a stored receipt
RemoveJobberReceipt ==
    /\ started.removals < MaxRemovals
    /\ counted
    /\ \E id \in {r.id : r \in Range(jobberReceipts)} :
        /\ removeJobberReceipt(id)
        /\ call' = [fn |-> "removeJobberReceipt", id |-> id, store |-> Store]
    /\ UNCHANGED <<bankPanelVars, jobberPanelVars, timers, nextId, clock>>

\* App: the "Clear all data" button, shown when there is data, confirmed
ClearAllData ==
    /\ started.removals < MaxRemovals
    /\ counted
    /\ Len(bankTransactions) > 0 \/ Len(jobberReceipts) > 0
    /\ clearAllData
    /\ call' = [fn |-> "clearAllData", store |-> Store]
    /\ UNCHANGED <<bankPanelVars, jobberPanelVars, timers, nextId, clock>>

\* window.location.reload(): the page starts again.  The collections are the
\* ones that useLocalStorage kept under their keys; the state of UploadSection
\* is the initial one; the invocations in flight and the pending timeouts are
\* gone with the page
reload ==
    /\ UNCHANGED storeVars
    /\ bankJob' = NoJob /\ jobberJob' = NoJob
    /\ bankStatus' = NoStatus /\ jobberStatus' = NoStatus
    /\ isBankLoading' = FALSE /\ isJobberLoading' = FALSE
    /\ timers' = [bank |-> 0, jobber |-> 0]

\* App.handleClearBank: the trash button of the bank panel, shown when
\* bankCount > 0, with the prompt confirmed
HandleClearBank ==
    /\ started.removals < MaxRemovals
    /\ counted
    /\ Len(bankTransactions) > 0
    /\ reload
    /\ call' = [fn |-> "handleClearBank", store |-> Store]
    /\ UNCHANGED <<nextId, clock>>

\* App.handleClearJobber: the trash button of the Jobber panel, shown when
\* jobberCount > 0, with the prompt confirmed
HandleClearJobber ==
    /\ started.removals < MaxRemovals
    /\ counted
    /\ Len(jobberReceipts) > 0
    /\ reload
    /\ call' = [fn |-> "handleClearJobber", store |-> Store]
    /\ UNCHANGED <<nextId, clock>>

-----------------------------------------------------------------------------
(* components/UploadSection: the upload batches *)

\* most batches dropped in a behaviour, on the two panels together
MaxBatches == 2
\* most files in one batch
MaxFiles == 3

\* the rows that a file can hold
AppRows == {<<2, 50000>>, <<10, 12500>>}

\* parseBankPDF(file): an error when the file cannot be read
BankFileOutcomes ==
    {Parsed(<<>>)} \cup {Parsed(<<r>>) : r \in AppRows} \cup {Failed("read")}

\* parseJobberFile(file): an error for an empty or unrecognized table; the
\* spreadsheet path can return no receipt
JobberFileOutcomes ==
    {Parsed(<<>>)} \cup {Parsed(<<r>>) : r \in AppRows} \cup {Failed("empty")}

\* clearStatus(type): one more timeout pending for the panel
clearStatus(type) == timers' = [timers EXCEPT ![type] = @ + 1]

\* the timeout of clearStatus fires
TimerFires ==
    /\ \E type \in {"bank", "jobber"} :
        /\ timers[type] > 0
        /\ timers' = [timers EXCEPT ![type] = @ - 1]
        /\ IF type = "bank"
           THEN bankStatus' = NoStatus /\ UNCHANGED jobberStatus
           ELSE jobberStatus' = NoStatus /\ UNCHANGED bankStatus
    /\ UNCHANGED <<storeVars, bankJob, jobberJob, isBankLoading, isJobberLoading,
                   started, nextId, clock, call>>

\* the locals of an invocation of onBankDrop that has returned at once
BankJobOfNoFiles ==
    [pc |-> "done", files |-> 0, settled |-> <<>>, allTransactions |-> <<>>,
     errorCount |-> 0, lastError |-> "", jobberReceipts |-> <<>>, uploaded |-> <<>>,
     mounted |-> TRUE]

\* the locals of an invocation of onJobberDrop that has returned at once
JobberJobOfNoFiles ==
    [pc |-> "done", files |-> 0, settled |-> <<>>, allReceipts |-> <<>>,
     errors |-> <<>>, bankTransactions |-> <<>>, uploaded |-> <<>>,
     mounted |-> TRUE]

\* onBankDrop(acceptedFiles), up to its first await: n files were dropped on the
\* bank dropzone, which is disabled while isBankLoading.  The handler is the
\* one of the current render: its onBankUpload holds the receipts of now.
\* `mounted` tells whether the UploadSection that the invocation belongs to
\* is still mounted.  One invocation per panel is followed: no batch is dropped
\* while an invocation of an unmounted UploadSection is in flight.
BankDrop ==
    /\ ~isBankLoading
    /\ bankJob.pc # "await"
    /\ started.bank + started.jobber < MaxBatches
    /\ started' = [started EXCEPT !.bank = @ + 1]
    /\ \E n \in 0..MaxFiles :
        IF n = 0
        THEN /\ bankStatus' = [type |-> "error", text |-> "No files accepted"]
             /\ clearStatus("bank")
             /\ bankJob' = BankJobOfNoFiles
             /\ UNCHANGED isBankLoading
        ELSE /\ isBankLoading' = TRUE
             /\ bankStatus' = [type |-> "loading", files |-> n]
             /\ bankJob' = [pc |-> "await",
                            files |-> n,
                            settled |-> <<>>,
                            allTransactions |-> <<>>,
                            errorCount |-> 0,
                            lastError |-> "",
                            jobberReceipts |-> jobberReceipts,
                            uploaded |-> <<>>,
                            mounted |-> TRUE]
             /\ UNCHANGED timers
    /\ UNCHANGED <<storeVars, jobberPanelVars, nextId, clock, call>>

\* onJobberDrop(acceptedFiles), up to its first await
JobberDrop ==
    /\ ~isJobberLoading
    /\ jobberJob.pc # "await"
    /\ started.bank + started.jobber < MaxBatches
    /\ started' = [started EXCEPT !.jobber = @ + 1]
    /\ \E n \in 0..MaxFiles :
        IF n = 0
        THEN /\ jobberStatus' = [type |-> "error", text |-> "No files accepted"]
             /\ clearStatus("jobber")
             /\ jobberJob' = JobberJobOfNoFiles
             /\ UNCHANGED isJobberLoading
        ELSE /\ isJobberLoading' = TRUE
             /\ jobberStatus' = [type |-> "loading", files |-> n]
             /\ jobberJob' = [pc |-> "await",
                              files |-> n,
                              settled |-> <<>>,
                              allReceipts |-> <<>>,
                              errors |-> <<>>,
                              bankTransactions |-> bankTransactions,
                              uploaded |-> <<>>,
                              mounted |-> TRUE]
             /\ UNCHANGED timers
    /\ UNCHANGED <<storeVars, bankPanelVars, nextId, clock, call>>

\* the try/catch around `await parseBankPDF(file)` with the catch block
\* emptying the records collected so far
bankFileSettledDiscarding(job, outcome) ==
    IF outcome.ok
    THEN [job EXCEPT !.settled = Append(@, outcome),
                     !.allTransactions =
                        @ \o BankRecords(outcome.rows, nextId.bank - 1)]
    ELSE [job EXCEPT !.settled = Append(@, outcome),
                     !.allTransactions = <<>>,
                     !.errorCount = @ + 1,
                     !.lastError = outcome.message]

\* the try/catch around `await parseBankPDF(file)`: the locals after the
\* outcome of the file (settled is the history of the outcomes)
bankFileSettled(job, outcome) ==
    IF outcome.ok
    THEN [job EXCEPT !.settled = Append(@, outcome),
                     !.allTransactions =
                        @ \o BankRecords(outcome.rows, nextId.bank - 1)]
    ELSE [job EXCEPT !.settled = Append(@, outcome),
                     !.errorCount = @ + 1,
                     !.lastError = outcome.message]

\* the try/catch around `await parseJobberFile(file)`
jobberFileSettled(job, outcome) ==
    IF outcome.ok
    THEN [job EXCEPT !.settled = Append(@, outcome),
                     !.allReceipts =
                        @ \o ReceiptRecords(outcome.rows, nextId.jobber - 1)]
    ELSE [job EXCEPT !.settled = Append(@, outcome),
                     !.errors = Append(@, outcome.message)]

\* generateId(prefix) was called once for each record parsed from the file
idsTaken(prefix, outcome) ==
    IF outcome.ok
    THEN nextId' = [nextId EXCEPT ![prefix] = @ + Len(outcome.rows)]
    ELSE UNCHANGED nextId

\* onBankDrop: the parse of a file that is not the last one settles, and the
\* loop awaits the parse of the next file
BankFileSettles ==
    /\ bankJob.pc = "await"
    /\ Len(bankJob.settled) + 1 < bankJob.files
    /\ \E outcome \in BankFileOutcomes :
        /\ bankJob' = bankFileSettled(bankJob, outcome)
        /\ idsTaken("bank", outcome)
    /\ UNCHANGED <<storeVars, bankStatus, isBankLoading, jobberPanelVars,
                   timers, started, clock, call>>

\* onJobberDrop: the parse of a file that is not the last one settles
JobberFileSettles ==
    /\ jobberJob.pc = "await"
    /\ Len(jobberJob.settled) + 1 < jobberJob.files
    /\ \E outcome \in JobberFileOutcomes :
        /\ jobberJob' = jobberFileSettled(jobberJob, outcome)
        /\ idsTaken("jobber", outcome)
    /\ UNCHANGED <<storeVars, jobberStatus, isJobberLoading, bankPanelVars,
                   timers, started, clock, call>>

\* the status that onBankDrop sets after the loop
bankReport(job) ==
    IF Len(job.allTransactions) > 0
    THEN [type |-> "success",
          loaded |-> Len(job.allTransactions),
          failed |-> IF job.errorCount > 0 THEN <<job.errorCount>> ELSE <<>>]
    ELSE [type |-> "error",
          text |-> IF job.errorCount > 0 THEN job.lastError
                   ELSE "No transactions found"]

\* the status that onJobberDrop sets after the loop
jobberReport(job) ==
    IF Len(job.allReceipts) > 0
    THEN [type |-> "success", loaded |-> Len(job.allReceipts), failed |-> <<>>]
    ELSE [type |-> "error",
          text |-> IF Len(job.errors) > 0 THEN job.errors[1]
                   ELSE "No receipts found"]

\* onBankDrop: the parse of the last file settles, the loop ends and the
\* handler runs to its end.  The state setters of an UploadSection that is no
\* longer mounted change nothing that is displayed, and neither does the
\* timeout that its clearStatus schedules.
BankBatchEnds ==
    /\ bankJob.pc = "await"
    /\ Len(bankJob.settled) + 1 = bankJob.files
    /\ \E outcome \in BankFileOutcomes :
        LET job == bankFileSettled(bankJob, outcome)
        IN  /\ IF bankJob.mounted
               THEN /\ isBankLoading' = FALSE
                    /\ bankStatus' = bankReport(job)
                    /\ clearStatus("bank")
               ELSE UNCHANGED <<isBankLoading, bankStatus, timers>>
            /\ IF Len(job.allTransactions) > 0
               THEN /\ addBankTransactions(job.allTransactions, job.jobberReceipts)
                    /\ nextId' = [nextId EXCEPT
                                    !.bank = @ + (IF outcome.ok THEN Len(outcome.rows) ELSE 0),
                                    !.match = @ + Len(matches')]
                    /\ call' = [fn |-> "addBankTransactions",
                                transactions |-> job.allTransactions,
                                store |-> Store]
                    /\ bankJob' = [job EXCEPT !.pc = "done",
                                              !.uploaded = <<job.allTransactions>>]
               ELSE /\ idsTaken("bank", outcome)
                    /\ bankJob' = [job EXCEPT !.pc = "done"]
                    /\ UNCHANGED <<storeVars, call>>
    /\ UNCHANGED <<jobberPanelVars, started, clock>>

\* onJobberDrop: the parse of the last file settles, the loop ends and the
\* handler runs to its end
JobberBatchEnds ==
    /\ jobberJob.pc = "await"
    /\ Len(jobberJob.settled) + 1 = jobberJob.files
    /\ \E outcome \in JobberFileOutcomes :
        LET job == jobberFileSettled(jobberJob, outcome)
        IN  /\ IF jobberJob.mounted
               THEN /\ isJobberLoading' = FALSE
                    /\ jobberStatus' = jobberReport(job)
                    /\ clearStatus("jobber")
               ELSE UNCHANGED <<isJobberLoading, jobberStatus, timers>>
            /\ IF Len(job.allReceipts) > 0
               THEN /\ addJobberReceipts(job.allReceipts, job.bankTransactions)
                    /\ nextId' = [nextId EXCEPT
                                    !.jobber = @ + (IF outcome.ok THEN Len(outcome.rows) ELSE 0),
                                    !.match = @ + Len(matches')]
                    /\ call' = [fn |-> "addJobberReceipts",
                                receipts |-> job.allReceipts,
                                store |-> Store]
                    /\ jobberJob' = [job EXCEPT !.pc = "done",
                                                !.uploaded = <<job.allReceipts>>]
               ELSE /\ idsTaken("jobber", outcome)
                    /\ jobberJob' = [job EXCEPT !.pc = "done"]
                    /\ UNCHANGED <<storeVars, call>>
    /\ UNCHANGED <<bankPanelVars, started, clock>>

\* the locals of an invocation whose UploadSection was unmounted
unmounted(job) == IF job.pc = "await" THEN [job EXCEPT !.mounted = FALSE] ELSE job

\* App: setActiveTab(id) of another tab, then setActiveTab('upload').
\* UploadSection is rendered only while activeTab is 'upload': it is unmounted
\* and a new one is mounted, with the initial state of its useState hooks.  The
\* invocations in flight go on with the setters and the onBankUpload or
\* onJobberUpload of the unmounted one.
SetActiveTab ==
    /\ started.removals < MaxRemovals
    /\ counted
    /\ bankJob' = unmounted(bankJob)
    /\ jobberJob' = unmounted(jobberJob)
    /\ bankStatus' = NoStatus /\ jobberStatus' = NoStatus
    /\ isBankLoading' = FALSE /\ isJobberLoading' = FALSE
    /\ timers' = [bank |-> 0, jobber |-> 0]
    /\ UNCHANGED <<storeVars, nextId, clock, call>>

-----------------------------------------------------------------------------
(* The application: uploads, removals and clearing, in any order *)

Init ==
    /\ AppInit
    /\ nextId = [bank |-> 1, jobber |-> 1, match |-> 1]
    /\ clock = 20 * DayLength
    /\ call = NoCall

Next ==
    \/ BankDrop
    \/ BankFileSettles
    \/ BankBatchEnds
    \/ JobberDrop
    \/ JobberFileSettles
    \/ JobberBatchEnds
    \/ RemoveBankTransaction
    \/ RemoveJobberReceipt
    \/ ClearAllData
    \/ HandleClearBank
    \/ HandleClearJobber
    \/ SetActiveTab
    \/ TimerFires

Spec == Init /\ [][Next]_vars

-----------------------------------------------------------------------------
(* Calls of findExactMatches on argument lists drawn from small sets *)

\* the (date, amount) of the records of an argument list: two amounts; day gaps
\* of 0, 1, 7 and 8 between a bank transaction and a receipt; an invalid date
BankRows ==
    {<<2, 50000>>, <<9, 50000>>, <<9, 12500>>, <<InvalidDate, 50000>>}
ReceiptRows ==
    {<<2, 50000>>, <<10, 50000>>, <<10, 12500>>, <<InvalidDate, 50000>>}

MatchInit ==
    /\ AppInit
    /\ clock = 20 * DayLength
    /\ \E b \in SeqUpTo(BankRows, MaxBank), r \in SeqUpTo(ReceiptRows, MaxReceipts) :
        /\ call = [fn |-> "findExactMatches",
                   banks |-> BankRecords(b, 0),
                   receipts |-> ReceiptRecords(r, 0),
                   sorted |-> <<>>,
                   runs |-> <<>>]
        /\ nextId = [bank |-> Len(b) + 1, jobber |-> Len(r) + 1, match |-> 1]

\* the first run: the sort returns one of the orders it can return
MatchRun ==
    /\ call.runs = <<>>
    /\ \E s \in sortedReceipts(call.receipts) :
        LET result == findExactMatches(call.banks, s, clock, nextId.match)
        IN  /\ call' = [call EXCEPT !.sorted = s, !.runs = <<result>>]
            /\ nextId' = [nextId EXCEPT !.match = @ + Len(result)]
    /\ UNCHANGED <<appVars, clock>>

\* the same call again, a day later, by the same build (whose sort returns the
\* same order for the same array)
MatchRerun ==
    /\ Len(call.runs) = 1
    /\ LET result == findExactMatches(call.banks, call.sorted, clock + DayLength,
                                      nextId.match)
       IN  /\ call' = [call EXCEPT !.runs = Append(@, result)]
           /\ nextId' = [nextId EXCEPT !.match = @ + Len(result)]
           /\ clock' = clock + DayLength
    /\ UNCHANGED appVars

MatchNext == MatchRun \/ MatchRerun

MatchSpec == MatchInit /\ [][MatchNext]_vars

-----------------------------------------------------------------------------
(* Calls of getAgingBuckets on transaction lists drawn from small sets *)

\* most transactions in the argument list of getAgingBuckets
MaxAged == 2

\* the day of the calls
Today == 70

\* the ages, in days, of the transactions: both ends of every bucket, and a
\* transaction dated tomorrow
Ages == {0, 7, 8, 14, 15, 30, 31, 60, 61, -1}

AgedRows == ({Today - a : a \in Ages} \cup {InvalidDate}) \X {12500, 50000}

\* the times of day of the calls, in minutes after midnight UTC
TimesOfDay == {0, 1, DayLength - 1}

AgingInit ==
    /\ AppInit
    /\ nextId = [bank |-> MaxAged + 1, jobber |-> 1, match |-> 1]
    /\ \E rows \in SeqUpTo(AgedRows, MaxAged), m \in TimesOfDay :
        /\ clock = Today * DayLength + m
        /\ call = [fn |-> "getAgingBuckets",
                   transactions |-> BankRecords(rows, 0),
                   done |-> FALSE,
                   result |-> <<>>]

AgingRun ==
    /\ ~call.done
    /\ call' = [call EXCEPT !.done = TRUE,
                            !.result = getAgingBuckets(call.transactions, clock)]
    /\ UNCHANGED <<appVars, nextId, clock>>

AgingNext == AgingRun

AgingSpec == AgingInit /\ [][AgingNext]_vars

-----------------------------------------------------------------------------
(* Calls of the parsers on files drawn from small sets *)

\* most data lines in a receipt table, and most lines after the header line
\* in a bank statement
MaxRows == 2
MaxLines == 2

\* what `new Date` makes of a string with digits that normalizeDate does not
\* know: an Invalid Date, or a date whose day depends on the time zone
Hosts == {[native |-> <<>>], [native |-> <<"2", "0", "2", "4", "-", "0", "1", "-", "0", "5">>], [native |-> <<"2", "0", "2", "4", "-", "0", "1", "-", "0", "4">>]}

\* the header lines of the receipt tables, and under each the lines that a
\* table can hold (<<>> is an empty line)
ScenarioHeaders == <<<<"D", "a", "t", "e">>, <<" ", "T", "e", "a", "m", " ", "M", "e", "m", "b", "e", "r">>, <<" ", "J", "o", "b", " ", "#">>, <<" ", "T", "o", "t", "a", "l">>, <<" ", "M", "e", "m", "o">>>>
ScenarioRow == <<<<"1", "/", "5", "/", "2", "0", "2", "4">>, <<" ", "j", "a", "n", "e", " ", "d", "o", "e">>, <<" ", "a", "b", "c", "1", "2", "3">>, <<" ", "$", "1", "2", ".", "5", "0">>, <<" ", "l", "u", "n", "c", "h">>>>

ReceiptTables ==
    << [headers |-> ScenarioHeaders,
        lines |-> {ScenarioRow,
                   <<<<"1", "/", "5", "/", "2", "0", "2", "4">>, <<>>, <<>>, <<" ", "7">>, <<>>>>,
                   <<<<"0", "1", "-", "0", "6", "-", "2", "4">>, <<" ", "o", "'", "'", "n", "e", "i", "l", "-", "s", "m", "i", "t", "h", " ", "j", "r">>, <<" ", "w", "o", " ", "7">>, <<"0">>, <<" ", "l", "u", "n", "c", "h">>>>,
                   <<<<"n", "/", "a">>, <<" ", "j", "a", "n", "e", " ", "d", "o", "e">>, <<" ", "a", "b", "c", "1", "2", "3">>, <<" ", "$", "1", "2", ".", "5", "0">>, <<" ", "l", "u", "n", "c", "h">>>>}],
       [headers |-> <<<<"D", "a", "t", "e">>, <<"A", "m", "o", "u", "n", "t">>>>,
        lines |-> {<<<<"1", "/", "5", "/", "2", "0", "2", "4">>, <<"1", "2", ".", "5", "0">>>>,
                   <<<<"1", "/", "5", "/", "2", "0", "2", "4">>, <<"0">>>>,
                   <<<<"n", "/", "a">>, <<"1", "2", ".", "5", "0">>>>,
                   <<<<"1", "-", "5", "-", "2", "0", "2", "4">>, <<"-", "3">>>>,
                   <<<<"1", "/", "5", "/", "2", "0", "2", "4">>, <<"(", "4", ".", "0", "0", ")">>>>,
                   <<<<"2", "0", "2", "4", "-", "1", "-", "5">>, <<"$", "1", ",", "2", "3", "4", ".", "5", "6">>>>,
                   <<<<"1", "/", "5", "/", "2", "0", "2", "4">>>>,
                   <<>>}],
       [headers |-> <<<<"W", "h", "e", "n">>, <<"A", "m", "o", "u", "n", "t">>>>,
        lines |-> {<<<<"1", "/", "5", "/", "2", "0", "2", "4">>, <<"1", "2", ".", "5", "0">>>>}],
       [headers |-> <<<<"E", "x", "p", "e", "n", "s", "e", " ", "D", "a", "t", "e">>, <<"A", "m", "o", "u", "n", "t">>, <<"T", "O", "T", "A", "L">>>>,
        lines |-> {<<<<"1", "/", "5", "/", "2", "0", "2", "4">>, <<"a", "b", "c">>, <<"5">>>>,
                   <<<<"1", "/", "5", "/", "2", "0", "2", "4">>, <<"0">>, <<"5">>>>,
                   <<<<"1", "/", "5", "/", "2", "0", "2", "4">>, <<>>, <<"5">>>>}],
       [headers |-> <<<<"D", "a", "t", "e">>>>,
        lines |-> {<<<<"1", "/", "5", "/", "2", "0", "2", "4">>>>}] >>

ReceiptContents ==
    {<<>>} \cup UNION {{<<ReceiptTables[k].headers>> \o lines :
                            lines \in SeqUpTo(ReceiptTables[k].lines, MaxRows)} :
                       k \in 1..Len(ReceiptTables)}

ReceiptFileNames == {<<"r", ".", "c", "s", "v">>, <<"R", ".", "X", "L", "S", "X">>, <<"r", ".", "x", "l", "s">>, <<"r", ".", "t", "x", "t">>}

\* the lines of the bank statements
BankHeaderLine == <<"D", "a", "t", "e", ",", "D", "e", "s", "c", "r", "i", "p", "t", "i", "o", "n", ",", "A", "m", "o", "u", "n", "t">>
ScenarioLine == <<"2", "0", "2", "4", "-", "0", "1", "-", "0", "5", ",", "C", "o", "f", "f", "e", "e", " ", "S", "h", "o", "p", ",", "-", "1", "2", ".", "5", "0">>

\* a data row whose description has a keyword of the header heuristic
FeeLine == <<"1", "/", "5", "/", "5", "0", ",", "P", "o", "s", "t", "i", "n", "g", " ", "f", "e", "e", ",", "1", ".", "0", "0">>

\* a line with two currency-shaped substrings, the first one negative
TwoAmountsLine == <<"1", "2", "/", "3", "1", "/", "4", "9", ",", "C", "o", "f", "f", "e", "e", " ", "S", "h", "o", "p", ",", "-", "3", ".", "0", "0", ",", "1", "2", ".", "5", "0">>

\* a row of four fields with white space, quotes, a dollar sign and an amount
\* of three decimal digits
QuotedLine == <<" ", "2", "0", "2", "4", "-", "0", "1", "-", "0", "5", ",", " ", "\"", "C", "o", "f", "f", "e", "e", " ", "S", "h", "o", "p", "\"", " ", ",", "r", "e", "f", " ", "7", ",", "$", "3", ".", "0", "0", "5", " ">>

BankLines ==
    {ScenarioLine,
     TwoAmountsLine,
     <<"2", "0", "2", "4", "-", "0", "1", "-", "0", "5", ",", "a", "b", ",", "1", "2", ".", "5", "0">>,
     <<"2", "0", "2", "4", "-", "0", "1", "-", "0", "5", ",", "C", "o", "f", "f", "e", "e", " ", "S", "h", "o", "p", ",", "a", "b", "c">>,
     <<"2", "0", "2", "4", "-", "0", "1", "-", "0", "5", ",", "-", "1", "2", ".", "5", "0">>,
     QuotedLine,
     <<"1", "3", "/", "4", "5", "/", "2", "0", "2", "4", ",", "C", "o", "f", "f", "e", "e", " ", "S", "h", "o", "p", ",", "-", "1", "2", ".", "5", "0">>,
     <<"2", "0", "2", "4", "-", "1", "-", "5", ",", "C", "o", "f", "f", "e", "e", " ", "S", "h", "o", "p", ",", "5", ".", "0", "0">>,
     FeeLine,
     <<>>}

BankContents ==
    {lines : lines \in SeqUpTo(BankLines, MaxLines)}
        \cup {<<BankHeaderLine>> \o lines : lines \in SeqUpTo(BankLines, MaxLines)}

BankFileNames == {<<"S", ".", "C", "S", "V">>, <<"s", ".", "p", "d", "f">>, <<"s", ".", "x", "l", "s", "x">>}

ParseInit ==
    /\ AppInit
    /\ nextId = [bank |-> 1, jobber |-> 1, match |-> 1]
    /\ clock = 20 * DayLength
    /\ \E host \in Hosts :
        \/ \E name \in ReceiptFileNames, content \in ReceiptContents :
            call = [fn |-> "parseJobberFile",
                    file |-> [name |-> name, content |-> content],
                    host |-> host, done |-> FALSE, result |-> <<>>]
        \/ \E name \in BankFileNames, content \in BankContents :
            call = [fn |-> "parseBankPDF",
                    file |-> [name |-> name, content |-> content],
                    host |-> host, done |-> FALSE, result |-> <<>>]

\* generateId was called once for each record returned
idsAfter(prefix, outcome) ==
    IF outcome.ok THEN [nextId EXCEPT ![prefix] = @ + Len(outcome.rows)] ELSE nextId

\* the call returns, or throws
returns(prefix, outcome) ==
    /\ call' = [call EXCEPT !.done = TRUE, !.result = outcome]
    /\ nextId' = idsAfter(prefix, outcome)

ParseJobberRun ==
    /\ call.fn = "parseJobberFile" /\ ~call.done
    /\ returns("jobber", parseJobberFile(call.file, call.host, nextId.jobber - 1))
    /\ UNCHANGED <<appVars, clock>>

ParseBankRun ==
    /\ call.fn = "parseBankPDF" /\ ~call.done
    /\ returns("bank", parseBankPDF(call.file, call.host, nextId.bank - 1))
    /\ UNCHANGED <<appVars, clock>>

ParseNext == ParseJobberRun \/ ParseBankRun

ParseSpec == ParseInit /\ [][ParseNext]_vars

-----------------------------------------------------------------------------
(* Claims about findExactMatches, under MatchSpec *)

\* the bank transaction / the receipt of the call with that identifier
CallBank(id) == CHOOSE b \in Range(call.banks) : b.id = id
CallReceipt(id) == CHOOSE r \in Range(call.receipts) : r.id = id

\* C1: in the Match list that findExactMatches returns, no bankId and no
\* receiptId appears in more than one Match.
C1_Injective ==
    \A n \in 1..Len(call.runs) :
        LET ms == call.runs[n]
        IN  \A i \in 1..Len(ms), j \in 1..Len(ms) :
                i # j => /\ ms[i].bankId # ms[j].bankId
                         /\ ms[i].receiptId # ms[j].receiptId

\* two Matches of one amount were returned while a third receipt of that amount
\* was left over
C1_Witness ==
    /\ Len(call.runs) >= 1
    /\ Len(call.runs[1]) = 2
    /\ call.runs[1][1].amount = call.runs[1][2].amount
    /\ Len(call.receipts) = 3
    /\ \A i \in 1..3 : call.receipts[i].amount = call.runs[1][1].amount

\* C2: for every Match returned, the amount of its bank transaction equals the
\* amount of its receipt, and Match.amount is that amount.
C2_ExactAmount ==
    \A n \in 1..Len(call.runs) :
        \A m \in Range(call.runs[n]) :
            /\ CallBank(m.bankId).amount = CallReceipt(m.receiptId).amount
            /\ m.amount = CallReceipt(m.receiptId).amount

\* a Match was returned for the second bank transaction, the first one having
\* another amount
C2_Witness ==
    /\ Len(call.runs) >= 1
    /\ Len(call.banks) = 2
    /\ call.banks[1].amount # call.banks[2].amount
    /\ \E m \in Range(call.runs[1]) : m.bankId = call.banks[2].id

\* C5: a second run on the same argument lists returns the same Matches in the
\* same order: the same bankId, receiptId, amount, daysSinceMatch and confidence
\* (the Match ids and matchDate, which generateId and the clock give, apart).
C5_Deterministic ==
    Len(call.runs) = 2 => Outcomes(call.runs[1]) = Outcomes(call.runs[2])

\* a second run, a day after the first, returned Matches
C5_Witness ==
    /\ Len(call.runs) = 2
    /\ Len(call.runs[2]) >= 1
    /\ call.runs[1][1].matchDate # call.runs[2][1].matchDate
    /\ call.runs[1][1].id # call.runs[2][1].id

\* the receipts are in descending date order (a receipt whose date is no date
\* has no place in that order)
DescendingDates(sorted) ==
    \A i \in 1..Len(sorted), j \in 1..Len(sorted) :
        (i < j /\ sorted[i].date # InvalidDate /\ sorted[j].date # InvalidDate)
            => sorted[i].date >= sorted[j].date

\* ms pairs each receipt of `sorted`, taken in that order, with the first bank
\* transaction in input order that has its amount and is not paired with an
\* earlier receipt, and leaves it unpaired when there is none
GreedyOver(banks, sorted, ms) ==
    \A i \in 1..Len(sorted) :
        LET earlier == {sorted[j].id : j \in 1..(i - 1)}
            consumed == {m.bankId : m \in {x \in Range(ms) : x.receiptId \in earlier}}
            free == {k \in 1..Len(banks) :
                        /\ banks[k].amount = sorted[i].amount
                        /\ banks[k].id \notin consumed}
            mine == {m \in Range(ms) : m.receiptId = sorted[i].id}
        IN  IF free = {}
            THEN mine = {}
            ELSE /\ Cardinality(mine) = 1
                 /\ \A m \in mine :
                        m.bankId = banks[CHOOSE k \in free : \A l \in free : k <= l].id

\* C6: findExactMatches processes the receipts in descending date order and
\* pairs each with the first bank transaction, in input order, of the same
\* amount that is not yet consumed.
C6_GreedyByDate ==
    Len(call.runs) >= 1 =>
        /\ DescendingDates(call.sorted)
        /\ GreedyOver(call.banks, call.sorted, call.runs[1])

\* C6, for the argument lists whose receipts all have valid dates
C6_GreedyByValidDate ==
    (Len(call.runs) >= 1 /\ \A r \in Range(call.receipts) : r.date # InvalidDate) =>
        /\ DescendingDates(call.sorted)
        /\ GreedyOver(call.banks, call.sorted, call.runs[1])

\* C6, second part: of two receipts of one amount, the more recent one got the
\* only bank transaction of that amount, which has the date of the older one
C6_ScenarioD ==
    /\ Len(call.runs) >= 1
    /\ Len(call.banks) = 1 /\ Len(call.receipts) = 2
    /\ call.receipts[1].date = 2 /\ call.receipts[2].date = 10
    /\ call.banks[1].date = 2
    /\ Pairs(call.runs[1]) = {<<call.banks[1].id, call.receipts[2].id>>}

\* C7: for every Match, daysSinceMatch is the non-negative whole number of days
\* between the dates of its bank transaction and its receipt, and confidence is
\* "exact" exactly when daysSinceMatch <= 7.
C7_DaysAndConfidence ==
    \A n \in 1..Len(call.runs) :
        \A m \in Range(call.runs[n]) :
            LET b == CallBank(m.bankId).date
                r == CallReceipt(m.receiptId).date
            IN  /\ m.daysSinceMatch # NaN
                /\ m.daysSinceMatch >= 0
                /\ (b # InvalidDate /\ r # InvalidDate)
                        => m.daysSinceMatch = (IF b >= r THEN b - r ELSE r - b)
                /\ (m.confidence = "exact") = (m.daysSinceMatch <= 7)

\* C7, for the Matches whose two dates are valid
C7_DaysOfValidDates ==
    \A n \in 1..Len(call.runs) :
        \A m \in Range(call.runs[n]) :
            LET b == CallBank(m.bankId).date
                r == CallReceipt(m.receiptId).date
            IN  (b # InvalidDate /\ r # InvalidDate) =>
                    /\ m.daysSinceMatch = (IF b >= r THEN b - r ELSE r - b)
                    /\ (m.confidence = "exact") = (m.daysSinceMatch <= 7)

-----------------------------------------------------------------------------
(* Claims about getAgingBuckets, under AgingSpec *)

\* the age of a transaction in whole days at the time of the call
AgeOf(t) == (clock - t.date * DayLength) \div DayLength

\* the label of the bucket of the result that holds the transaction
LabelsOf(t) == {call.result[i].label :
                    i \in {j \in 1..Len(call.result) :
                             t \in Range(call.result[j].transactions)}}

\* C8: a transaction aged d whole days is placed in Current when 0 <= d <= 7,
\* Warning when 8 <= d <= 14, Attention when 15 <= d <= 30, Critical when
\* 31 <= d <= 60 and Overdue when d >= 61.
C8_BucketRanges ==
    call.done =>
        \A t \in Range(call.transactions) :
            (t.date # InvalidDate /\ AgeOf(t) >= 0) =>
                LabelsOf(t) =
                    { CASE AgeOf(t) <= 7 -> "Current"
                        [] AgeOf(t) <= 14 -> "Warning"
                        [] AgeOf(t) <= 30 -> "Attention"
                        [] AgeOf(t) <= 60 -> "Critical"
                        [] OTHER -> "Overdue" }

\* transactions aged 7 and 8 days were bucketed late in the day: the first is in
\* Current, the second in Warning
C8_Witness ==
    /\ call.done
    /\ clock = Today * DayLength + (DayLength - 1)
    /\ Len(call.transactions) = 2
    /\ AgeOf(call.transactions[1]) = 7
    /\ AgeOf(call.transactions[2]) = 8
    /\ call.result[1].transactions = <<call.transactions[1]>>
    /\ call.result[2].transactions = <<call.transactions[2]>>

\* the upper boundaries of Critical and Overdue: ages 60 and 61
C8_Witness60 ==
    /\ call.done
    /\ Len(call.transactions) = 2
    /\ AgeOf(call.transactions[1]) = 60
    /\ AgeOf(call.transactions[2]) = 61
    /\ call.result[4].transactions = <<call.transactions[1]>>
    /\ call.result[5].transactions = <<call.transactions[2]>>

-----------------------------------------------------------------------------
(* Claims about the store operations and the upload batches, under Spec *)

StoreOperations == {"addBankTransactions", "addJobberReceipts",
                    "removeBankTransaction", "removeJobberReceipt", "clearAllData"}

\* the sets of pairs that findExactMatches can produce on the stored collections
RecomputedPairs ==
    {Pairs(findExactMatches(bankTransactions, s, clock, 1)) :
        s \in sortedReceipts(jobberReceipts)}

\* C3: after every operation of useAppData that changes the bank or the
\* receipt collection, the (bankId, receiptId) pairs of the stored matches are
\* the pairs that findExactMatches produces on the stored collections
C3_FullRecomputation ==
    call.fn \in StoreOperations => Pairs(matches) \in RecomputedPairs

\* a removal has left a transaction and a receipt of the same amount unmatched
\* although both are stored
C3_RemovalLeavesPairUnmatched ==
    /\ call.fn = "removeBankTransaction"
    /\ matches = <<>>
    /\ \E t \in Range(bankTransactions), r \in Range(jobberReceipts) :
        t.amount = r.amount

\* s is t without some of its elements, the others in the order of t
IsSubSeq(s, t) ==
    \E f \in [1..Len(s) -> 1..Len(t)] :
        /\ \A i \in 1..Len(s) : s[i] = t[f[i]]
        /\ \A i \in 1..Len(s), j \in 1..Len(s) : i < j => f[i] < f[j]

\* C4: removeBankTransaction(id) (removeJobberReceipt(id)) removes exactly the
\* stored matches whose bankId (receiptId) is id: every other match stays,
\* unchanged and in its order, and the other input collection is unchanged
C4_RemoveCascade ==
    /\ call.fn = "removeBankTransaction" =>
        /\ Range(matches) = {m \in Range(call.store.matches) : m.bankId # call.id}
        /\ IsSubSeq(matches, call.store.matches)
        /\ jobberReceipts = call.store.jobberReceipts
    /\ call.fn = "removeJobberReceipt" =>
        /\ Range(matches) = {m \in Range(call.store.matches) : m.receiptId # call.id}
        /\ IsSubSeq(matches, call.store.matches)
        /\ bankTransactions = call.store.bankTransactions

\* a bank transaction was removed: of two stored matches, the one referencing
\* it is gone and the other one is left
C4_Witness ==
    /\ call.fn = "removeBankTransaction"
    /\ Len(call.store.matches) = 2
    /\ Len(matches) = 1
    /\ matches[1].bankId # call.id
    /\ \E m \in Range(call.store.matches) : m.bankId = call.id

\* a receipt was removed: the match referencing it is gone, another is left
C4_WitnessReceipt ==
    /\ call.fn = "removeJobberReceipt"
    /\ Len(call.store.matches) = 2
    /\ Len(matches) = 1
    /\ matches[1].receiptId # call.id

\* the rows of the files that parsed, in file order
RECURSIVE parsedRows(_)
parsedRows(settled) ==
    IF settled = <<>>
    THEN <<>>
    ELSE (IF Head(settled).ok THEN Head(settled).rows ELSE <<>>)
            \o parsedRows(Tail(settled))

\* the rows of a list of records, and their ids
RowsOf(records) == [i \in 1..Len(records) |-> <<records[i].date, records[i].amount>>]
IdsOf(records) == [i \in 1..Len(records) |-> records[i].id]

\* the records passed to the upload callback by a batch that has ended are
\* those of every file that parsed, in file order, each once
Isolated(job) ==
    job.pc = "done" =>
        /\ Len(job.settled) = job.files
        /\ \A k \in 1..Len(job.uploaded) :
            /\ RowsOf(job.uploaded[k]) = parsedRows(job.settled)
            /\ \A i \in 1..Len(job.uploaded[k]), j \in 1..Len(job.uploaded[k]) :
                i < j => IdsOf(job.uploaded[k])[i] < IdsOf(job.uploaded[k])[j]

\* C9: the files of a batch are parsed one after another, a failing file
\* neither aborts the batch nor discards anything, and the records passed to
\* onBankUpload / onJobberUpload are the concatenation, in file order, of the
\* records of every file that parsed
C9_FailureIsolated == Isolated(bankJob) /\ Isolated(jobberJob)

\* a bank batch of three files has ended: the second file failed, the first
\* and the third parsed one record each, and two records were uploaded
C9_Witness ==
    /\ bankJob.pc = "done"
    /\ bankJob.files = 3
    /\ bankJob.settled[1].ok /\ Len(bankJob.settled[1].rows) = 1
    /\ ~bankJob.settled[2].ok
    /\ bankJob.settled[3].ok /\ Len(bankJob.settled[3].rows) = 1
    /\ Len(bankJob.uploaded) = 1
    /\ Len(bankJob.uploaded[1]) = 2

\* the same for a receipt batch
C9_WitnessReceipts ==
    /\ jobberJob.pc = "done"
    /\ jobberJob.files = 3
    /\ jobberJob.settled[1].ok /\ Len(jobberJob.settled[1].rows) = 1
    /\ ~jobberJob.settled[2].ok
    /\ jobberJob.settled[3].ok /\ Len(jobberJob.settled[3].rows) = 1
    /\ Len(jobberJob.uploaded) = 1
    /\ Len(jobberJob.uploaded[1]) = 2

\* the report of a batch that loaded `loaded` records and had `failed` files
\* fail: a success naming both numbers
PartialSuccess(status, loaded, failed) ==
    /\ status.type = "success"
    /\ status.loaded = loaded
    /\ status.failed = <<failed>>

\* a bank batch has ended with records loaded and files failed, and its
\* report is on display
BankPartial ==
    /\ bankJob.pc = "done"
    /\ Len(bankJob.allTransactions) > 0
    /\ bankJob.errorCount > 0
    /\ bankStatus # NoStatus

\* a receipt batch has ended with records loaded and files failed, and its
\* report is on display
JobberPartial ==
    /\ jobberJob.pc = "done"
    /\ Len(jobberJob.allReceipts) > 0
    /\ Len(jobberJob.errors) > 0
    /\ jobberStatus # NoStatus

\* C10: a batch that ends with at least one record loaded and at least one
\* failed file is reported as a success, and the report holds both the number
\* of records loaded and the number of failed files; for bank batches and for
\* receipt batches
C10_PartialSuccessReported ==
    /\ BankPartial =>
        PartialSuccess(bankStatus, Len(bankJob.allTransactions), bankJob.errorCount)
    /\ JobberPartial =>
        PartialSuccess(jobberStatus, Len(jobberJob.allReceipts), Len(jobberJob.errors))

\* the bank half of C10: the report of a bank batch holds both numbers
C10_BankReport ==
    BankPartial =>
        PartialSuccess(bankStatus, Len(bankJob.allTransactions), bankJob.errorCount)

\* the receipt half of C10, without the number of failed files: the batch is
\* reported as a success with the number of receipts loaded
C10_JobberReport ==
    JobberPartial =>
        /\ jobberStatus.type = "success"
        /\ jobberStatus.loaded = Len(jobberJob.allReceipts)

\* a receipt batch with a failed file is reported without the failed count
C10_JobberWithoutCount ==
    JobberPartial /\ jobberStatus.failed = <<>>
-----------------------------------------------------------------------------
(* Claims about the parsers, under ParseSpec *)

\* a call of the receipt parser has returned or thrown, and the branch of
\* parseJobberFile that it took
JobberReturned == call.fn = "parseJobberFile" /\ call.done
ByExcel ==
    \/ endsWith(toLowerCase(call.file.name), <<".", "x", "l", "s", "x">>)
    \/ endsWith(toLowerCase(call.file.name), <<".", "x", "l", "s">>)
ByCSV == ~ByExcel /\ (endsWith(toLowerCase(call.file.name), <<".", "c", "s", "v">>) \/ hasSeparator(call.file.content))

\* the number of data rows of the table in the file: the lines after the
\* header line that are not empty
afterHeader(lines) == SubSeq(lines, 2, Len(lines))
DataRowCount ==
    IF ByExcel
    THEN Len(nonEmptyLines(afterHeader(call.file.content)))
    ELSE Len(afterHeader(nonEmptyLines(call.file.content)))

EmptyInput == {"CSV file appears to be empty", "Excel file appears to be empty or has no data rows"}
UnrecognizedColumns == {"No valid receipts found in file. Please check the column headers."}

\* C11: the receipt parser fails with one error when the input has no data
\* row and with another one when there are data rows of which none survives
\* extraction; it never returns an empty list of receipts as a success, on the
\* CSV path and on the spreadsheet path.
C11_NoEmptySuccess ==
    (JobberReturned /\ (ByExcel \/ ByCSV)) =>
        IF DataRowCount = 0
        THEN ~call.result.ok /\ call.result.message \in EmptyInput
        ELSE IF call.result.ok
        THEN call.result.rows # <<>>
        ELSE call.result.message \in UnrecognizedColumns

\* C11 on the CSV path alone
C11_CSVPath == (JobberReturned /\ ByCSV) => C11_NoEmptySuccess

\* C11 fails on the spreadsheet path: a sheet with a header line and data rows
\* of which none survives is parsed with success, into no receipt
C11_EmptySheetSuccess ==
    /\ JobberReturned /\ ByExcel
    /\ DataRowCount > 0
    /\ call.result = Parsed(<<>>)

\* the CSV path fails in both ways
C11_CSVEmptyInput ==
    JobberReturned /\ ByCSV /\ DataRowCount = 0 /\ ~call.result.ok
C11_CSVUnrecognized ==
    /\ JobberReturned /\ ByCSV /\ DataRowCount > 0
    /\ ~call.result.ok /\ call.result.message \in UnrecognizedColumns

\* the extension of the file is one that the receipt parser supports
SupportedReceiptFile ==
    \/ endsWith(toLowerCase(call.file.name), <<".", "c", "s", "v">>)
    \/ endsWith(toLowerCase(call.file.name), <<".", "x", "l", "s", "x">>)
    \/ endsWith(toLowerCase(call.file.name), <<".", "x", "l", "s">>)

UnsupportedFileType ==
    {"Unsupported file format. Please upload CSV or Excel files (.csv, .xlsx, .xls)"}

\* C12: a receipt file whose extension is none of .csv, .xlsx and .xls is
\* rejected with the unsupported-format error, and no record is produced from
\* it.
C12_UnsupportedRejected ==
    (JobberReturned /\ ~SupportedReceiptFile) =>
        ~call.result.ok /\ call.result.message \in UnsupportedFileType

\* C12 fails: a file of another extension whose text has a comma goes through
\* the CSV parser and gives receipts
C12_SniffedAsCSV ==
    /\ JobberReturned /\ ~SupportedReceiptFile
    /\ call.result.ok /\ call.result.rows # <<>>

\* only a file of another extension whose text has no separator is rejected
\* as unsupported
C12_RejectedByContent ==
    (JobberReturned /\ ~call.result.ok /\ call.result.message \in UnsupportedFileType) =>
        ~SupportedReceiptFile /\ ~hasSeparator(call.file.content)
C12_RejectedWitness ==
    JobberReturned /\ ~call.result.ok /\ call.result.message \in UnsupportedFileType

\* the bank statement parser rejects no file: one that is no CSV is read as
\* free text, whatever its extension
C12_BankNeverRejects == (call.fn = "parseBankPDF" /\ call.done) => call.result.ok
C12_BankSpreadsheetRead ==
    /\ call.fn = "parseBankPDF" /\ call.done
    /\ endsWith(toLowerCase(call.file.name), <<".", "x", "l", "s", "x">>)
    /\ call.result.ok /\ call.result.rows # <<>>

\* the row objects of the table in the file of the call
RowObjects ==
    IF call.file.content = <<>> THEN <<>>
    ELSE IF ByExcel
    THEN tableRows(headersOf(call.file.content[1]),
                   trimmedLines(nonEmptyLines(afterHeader(call.file.content))))
    ELSE papaData(nonEmptyLines(call.file.content))

\* the receipts that the call returned; none when it threw
Receipts == IF call.result.ok THEN call.result.rows ELSE <<>>

\* a date alias field of the row normalizes to a date
DateFound(row) ==
    \E i \in 1..Len(dateFields) :
        normalizeDate(property(row, dateFields[i]), call.host) # <<>>

\* the row objects with a date and with an amount greater than 0, in order
Survivors ==
    SelectSeq(RowObjects, LAMBDA row : DateFound(row) /\ extractAmount(row) > 0)

\* C13: a receipt row becomes a Receipt if and only if one of its date alias
\* fields normalizes to a non-empty date and the extracted amount is greater
\* than 0; so every Receipt has a non-empty date and an amount > 0.
C13_RowAcceptedIff ==
    (JobberReturned /\ (ByExcel \/ ByCSV)) =>
        /\ Len(Receipts) = Len(Survivors)
        /\ \A k \in 1..Len(Receipts) :
            /\ Receipts[k].date = extractDate(Survivors[k], call.host)
            /\ Receipts[k].amount = extractAmount(Survivors[k])
            /\ Receipts[k].date # <<>> /\ Receipts[k].amount > 0

\* a table of two rows, of which the one whose amount field is "0" is rejected
C13_Witness ==
    /\ JobberReturned /\ Len(RowObjects) = 2 /\ Len(Receipts) = 1
    /\ \E i \in 1..2 :
        /\ property(RowObjects[i], <<"a", "m", "o", "u", "n", "t">>) = <<"0">>
        /\ DateFound(RowObjects[i])

\* a row without any date field is rejected
C13_WitnessNoDate ==
    /\ JobberReturned /\ Len(RowObjects) = 1 /\ Len(Receipts) = 0
    /\ extractAmount(RowObjects[1]) > 0
    /\ \A i \in 1..Len(dateFields) : dateFields[i] \notin DOMAIN RowObjects[1]

\* a call of the bank statement parser in CSV mode has returned
BankCSVReturned ==
    /\ call.fn = "parseBankPDF" /\ call.done
    /\ endsWith(toLowerCase(call.file.name), <<".", "c", "s", "v">>)

\* the lines of a statement that are not blank, trimmed
InkedLines(lines) ==
    SelectSeq([i \in 1..Len(lines) |-> trim(lines[i])], LAMBDA line : line # <<>>)

\* the lines after the first one of them that is a header line: the data rows
RowsAfterHeader(lines) ==
    IF \A i \in 1..Len(lines) : ~isHeaderLine(lines[i]) THEN <<>>
    ELSE SubSeq(lines, SetMin({i \in 1..Len(lines) : isHeaderLine(lines[i])}) + 1, Len(lines))

\* the fields of the data rows
FieldsOfRows(rows) == [i \in 1..Len(rows) |-> csvParts(rows[i])]

\* at least 3 fields, field 0 normalizes to a date, the last field reads as a
\* number, field 1 has more than 2 characters
RowAccepted(fields) ==
    /\ Len(fields) >= 3
    /\ normalizeDate(fields[1], call.host) # <<>>
    /\ parseFloat(plainNumber(fields[Len(fields)])) # NaN
    /\ Len(fields[2]) > 2

AcceptedRows == SelectSeq(FieldsOfRows(RowsAfterHeader(InkedLines(call.file.content))), RowAccepted)

\* the transaction is the one of the fields
TransactionOf(transaction, fields, signedAmount) ==
    /\ transaction.date = normalizeDate(fields[1], call.host)
    /\ transaction.description = fields[2]
    /\ transaction.amount = Abs(signedAmount)
    /\ transaction.type = (IF signedAmount < 0 THEN "debit" ELSE "credit")

\* C14: in bank CSV mode a data row is accepted if and only if it has at
\* least 3 comma-separated fields, field 0 normalizes to a date, the last
\* field is numeric and field 1 has more than 2 characters; the record has
\* the type debit when the signed amount is negative and credit otherwise,
\* and the absolute value as its amount.
C14_RowAcceptedIff ==
    BankCSVReturned =>
        LET accepted == AcceptedRows
        IN  /\ call.result.ok
            /\ Len(call.result.rows) = Len(accepted)
            /\ \A k \in 1..Len(accepted) :
                TransactionOf(call.result.rows[k], accepted[k],
                              parseFloat(plainNumber(accepted[k][Len(accepted[k])])))

\* Scenario A: the row 2024-01-05,Coffee Shop,-12.50
C14_ScenarioA ==
    (BankCSVReturned /\ call.file.content = <<BankHeaderLine, ScenarioLine>>) =>
        /\ Len(call.result.rows) = 1
        /\ call.result.rows[1].date = <<"2", "0", "2", "4", "-", "0", "1", "-", "0", "5">>
        /\ call.result.rows[1].description = <<"C", "o", "f", "f", "e", "e", " ", "S", "h", "o", "p">>
        /\ call.result.rows[1].amount = 12500
        /\ call.result.rows[1].type = "debit"

\* Scenario A was parsed
C14_Witness ==
    /\ BankCSVReturned /\ call.file.content = <<BankHeaderLine, ScenarioLine>>
    /\ Len(call.result.rows) = 1

\* a statement of an accepted credit row and a rejected row
C14_WitnessRejected ==
    /\ BankCSVReturned /\ Len(RowsAfterHeader(InkedLines(call.file.content))) = 2
    /\ Len(call.result.rows) = 1
    /\ call.result.rows[1].type = "credit"

\* a call of the receipt parser on the table of Scenario B has returned
ScenarioBReturned ==
    /\ JobberReturned /\ (ByExcel \/ ByCSV)
    /\ call.file.content = <<ScenarioHeaders, ScenarioRow>>

\* the keys of the row objects of Scenario B: the headers in lower case and
\* without the characters other than a-z, 0-9 and white space
ScenarioKeys == {<<"d", "a", "t", "e">>, <<"t", "e", "a", "m", " ", "m", "e", "m", "b", "e", "r">>, <<"j", "o", "b", " ">>, <<"t", "o", "t", "a", "l">>, <<"m", "e", "m", "o">>}

\* the first alias of the group, in order, under which the row has a value
\* that is not blank, trimmed; '' when there is none
FirstAlias(row, aliases) ==
    IF \A i \in 1..Len(aliases) : trim(property(row, normalizedName(aliases[i]))) = <<>>
    THEN <<>>
    ELSE trim(property(row, normalizedName(aliases[
            SetMin({i \in 1..Len(aliases) :
                        trim(property(row, normalizedName(aliases[i]))) # <<>>})])))

\* C15: with the headers Date, Team Member, Job #, Total, Memo each field is
\* resolved through its alias group after the normalization of the headers,
\* by the first alias in order that has a non-empty value; the row 1/5/2024,
\* jane doe, abc123, $12.50, lunch gives the date 2024-01-05, the employee
\* Jane Doe, the job ABC123, the amount 12.50 and the description lunch.
C15_ScenarioB ==
    ScenarioBReturned =>
        /\ DOMAIN RowObjects[1] = ScenarioKeys
        /\ Len(Receipts) = 1
        /\ Receipts[1].date = <<"2", "0", "2", "4", "-", "0", "1", "-", "0", "5">>
        /\ Receipts[1].employee = <<"J", "a", "n", "e", " ", "D", "o", "e">>
        /\ Receipts[1].job = <<"A", "B", "C", "1", "2", "3">>
        /\ Receipts[1].amount = 12500
        /\ Receipts[1].description = <<"l", "u", "n", "c", "h">>

\* C15, for every table with the headers of Scenario B: the employee, the job
\* and the description of a receipt are the values of the first alias
C15_AliasOrder ==
    (JobberReturned /\ (ByExcel \/ ByCSV) /\ call.file.content # <<>>
        /\ call.file.content[1] = ScenarioHeaders) =>
        \A k \in 1..Len(Receipts) :
            /\ Receipts[k].employee =
                capitalizeWords(orElse(FirstAlias(Survivors[k], employeeFieldsCSV), <<"U", "n", "k", "n", "o", "w", "n">>))
            /\ Receipts[k].job =
                toUpperCase(orElse(FirstAlias(Survivors[k], jobFields), <<"G", "e", "n", "e", "r", "a", "l">>))
            /\ Receipts[k].description = FirstAlias(Survivors[k], descriptionFields)

\* Scenario B was parsed into one receipt
C15_Witness == ScenarioBReturned /\ Len(Receipts) = 1

\* a receipt of a row without employee and job: the defaults
C15_WitnessDefaults ==
    /\ JobberReturned /\ call.file.content # <<>> /\ call.file.content[1] = ScenarioHeaders
    /\ \E k \in 1..Len(Receipts) :
        Receipts[k].employee = <<"U", "n", "k", "n", "o", "w", "n">> /\ Receipts[k].job = <<"G", "E", "N", "E", "R", "A", "L">>

-----------------------------------------------------------------------------
(* Claims about batches in flight together and about the stored matches,    *)
(* under Spec                                                               *)

\* both batches have delivered records, and nothing was removed
BothDelivered ==
    /\ bankJob.pc = "done" /\ bankJob.uploaded # <<>>
    /\ jobberJob.pc = "done" /\ jobberJob.uploaded # <<>>
    /\ started.removals = 0

\* the two batches were in flight at the same time: each handler is of a
\* render in which the other batch had delivered nothing
InFlightTogether ==
    bankJob.jobberReceipts = <<>> /\ jobberJob.bankTransactions = <<>>

\* C16: once a bank batch and a receipt batch that were in flight at the same
\* time have both delivered their records, in either order, the pairs of the
\* stored matches are those of findExactMatches on the stored collections.
C16_BothBatchesMatched ==
    (BothDelivered /\ InFlightTogether) => Pairs(matches) \in RecomputedPairs

\* C16 for two batches of which one was dropped after the other had delivered
C16_OneAfterTheOther ==
    (BothDelivered /\ ~InFlightTogether) => Pairs(matches) \in RecomputedPairs

\* C16 fails: both batches have delivered a record of the same amount, and
\* nothing is matched
C16_FirstBatchLeftOut ==
    /\ BothDelivered /\ InFlightTogether
    /\ matches = <<>>
    /\ \E t \in Range(bankTransactions), r \in Range(jobberReceipts) : t.amount = r.amount

\* the ids of the stored bank transactions and of the stored receipts
BankIds == {t.id : t \in Range(bankTransactions)}
ReceiptIds == {r.id : r \in Range(jobberReceipts)}

\* C17: in every reachable state, whatever the interleaving of uploads,
\* removals and clearing, every stored Match refers to a stored bank
\* transaction and to a stored receipt.
C17_NoDanglingMatch ==
    \A m \in Range(matches) : m.bankId \in BankIds /\ m.receiptId \in ReceiptIds

\* C17 when nothing was removed or cleared
C17_WithoutRemoval == started.removals = 0 => C17_NoDanglingMatch

\* C17 fails: a batch that was dropped before a removal has ended after it,
\* and its match refers to the record removed
C17_MatchOfRemoved ==
    /\ call.fn = "addBankTransactions"
    /\ started.removals = 1
    /\ \E m \in Range(matches) : m.receiptId \notin ReceiptIds

\* the transaction is in the view unmatchedBank; it is the bank side of a pair
\* of the view matchedPairs
InUnmatchedBank(t) == \E i \in 1..Len(unmatchedBank) : unmatchedBank[i] = t
InMatchedPairs(t) == \E i \in 1..Len(matchedPairs) : matchedPairs[i].bank = <<t>>

\* C18: in every reachable state every stored bank transaction is in exactly
\* one of the two derived views: in unmatchedBank, or in matchedPairs as the
\* bank side of a pair whose receipt is stored too.
C18_ExactlyOneView ==
    \A t \in Range(bankTransactions) : InUnmatchedBank(t) # InMatchedPairs(t)

\* no stored bank transaction is in both views
C18_NeverInBoth ==
    \A t \in Range(bankTransactions) : ~(InUnmatchedBank(t) /\ InMatchedPairs(t))

\* C18 when nothing was removed or cleared
C18_WithoutRemoval == started.removals = 0 => C18_ExactlyOneView

\* C18 fails: a stored bank transaction is in neither view, its match refers
\* to a receipt that was removed
C18_InNeitherView ==
    \E t \in Range(bankTransactions) :
        /\ ~InUnmatchedBank(t) /\ ~InMatchedPairs(t)
        /\ \E m \in Range(matches) : m.bankId = t.id /\ m.receiptId \notin ReceiptIds


-----------------------------------------------------------------------------
(* Claims about the number of Matches per amount, under MatchSpec *)

\* the amounts of the bank transactions and receipts of the call
CallAmounts ==
    {call.banks[i].amount : i \in 1..Len(call.banks)}
        \cup {call.receipts[i].amount : i \in 1..Len(call.receipts)}

\* how many records of a list have the amount a
CountOfAmount(records, a) ==
    Cardinality({i \in 1..Len(records) : records[i].amount = a})

Fewer(x, y) == IF x <= y THEN x ELSE y

\* the bank transactions / receipts of the call that no Match of the run has
UnmatchedBankOf(ms) ==
    {i \in 1..Len(call.banks) :
        \A k \in 1..Len(ms) : ms[k].bankId # call.banks[i].id}

UnmatchedReceiptsOf(ms) ==
    {i \in 1..Len(call.receipts) :
        \A k \in 1..Len(ms) : ms[k].receiptId # call.receipts[i].id}

\* C19: for every amount a, the number of Matches with amount a is the minimum
\* of the number of bank transactions with amount a and the number of receipts
\* with amount a; no unmatched bank transaction and unmatched receipt have the
\* same amount.
C19_MaximalPerAmount ==
    \A n \in 1..Len(call.runs) :
        /\ \A a \in CallAmounts :
            CountOfAmount(call.runs[n], a) =
                Fewer(CountOfAmount(call.banks, a), CountOfAmount(call.receipts, a))
        /\ \A i \in UnmatchedBankOf(call.runs[n]) :
            \A j \in UnmatchedReceiptsOf(call.runs[n]) :
                call.banks[i].amount # call.receipts[j].amount

\* two bank transactions and two receipts of one amount gave two Matches, and a
\* receipt of another amount is left without a Match
C19_Witness ==
    /\ Len(call.runs) >= 1
    /\ Len(call.banks) = 2
    /\ Len(call.receipts) = 3
    /\ CountOfAmount(call.banks, 50000) = 2
    /\ CountOfAmount(call.receipts, 50000) = 2
    /\ CountOfAmount(call.runs[1], 50000) = 2
    /\ Cardinality(UnmatchedReceiptsOf(call.runs[1])) = 1
    /\ UnmatchedBankOf(call.runs[1]) = {}

\* more bank transactions than receipts of the amount: the receipts set the
\* number of Matches, and the dates (one of them invalid) do not
C19_WitnessFewerReceipts ==
    /\ Len(call.runs) >= 1
    /\ CountOfAmount(call.banks, 50000) = 2
    /\ CountOfAmount(call.receipts, 50000) = 1
    /\ Len(call.runs[1]) = 1
    /\ \E i \in 1..Len(call.receipts) :
        call.receipts[i].amount = 50000 /\ call.receipts[i].date = InvalidDate

-----------------------------------------------------------------------------
(* Claims about the fallback bucket, under AgingSpec *)

\* the indexes of the buckets of the result that hold the transaction
BucketsOf(t) ==
    {j \in 1..Len(call.result) : t \in Range(call.result[j].transactions)}

\* how many times the transaction is in the bucket
TimesIn(bucket, t) ==
    Cardinality({i \in 1..Len(bucket.transactions) : bucket.transactions[i] = t})

\* the number of days that getAgingBuckets computes is in the range of no
\* bucket: the date is after the time of the call, or is not a date
InNoRange(t) ==
    \A j \in 1..Len(buckets) :
        ~(AgeOf(t) >= buckets[j].minDays /\ AgeOf(t) <= buckets[j].maxDays)
            \/ t.date = InvalidDate

DatedAfterCall(t) == t.date # InvalidDate /\ t.date * DayLength > clock

\* C20: getAgingBuckets puts every transaction in exactly one of the five
\* buckets, once; a transaction whose age is in no range, a transaction dated
\* after the time of the call among them, is in Overdue and not in Current.
C20_OneBucketOverdueFallback ==
    call.done =>
        /\ Len(call.result) = 5
        /\ \A t \in Range(call.transactions) :
            /\ Cardinality(BucketsOf(t)) = 1
            /\ \A j \in BucketsOf(t) : TimesIn(call.result[j], t) = 1
            /\ InNoRange(t) => BucketsOf(t) = {5}
            /\ DatedAfterCall(t) => InNoRange(t) /\ LabelsOf(t) = {"Overdue"}

\* a transaction dated tomorrow was bucketed with one dated today: the first is
\* in Overdue, the second in Current
C20_Witness ==
    /\ call.done
    /\ Len(call.transactions) = 2
    /\ DatedAfterCall(call.transactions[1])
    /\ AgeOf(call.transactions[1]) = -1
    /\ AgeOf(call.transactions[2]) = 0
    /\ call.result[5].transactions = <<call.transactions[1]>>
    /\ call.result[1].transactions = <<call.transactions[2]>>
    /\ call.result[5].totalAmount = call.transactions[1].amount

\* a transaction whose date is not a date is in Overdue too
C20_WitnessInvalidDate ==
    /\ call.done
    /\ Len(call.transactions) = 1
    /\ call.transactions[1].date = InvalidDate
    /\ call.result[5].transactions = call.transactions

\* the badge of the row of a transaction dated after the time of the call has
\* the colour of Current, while getAgingBuckets counts it in Overdue
C20_BadgeOfFutureRow ==
    call.done =>
        \A t \in Range(call.transactions) :
            DatedAfterCall(t) =>
                /\ getAgingColor(getDaysSince(t.date, clock)) = "green"
                /\ LabelsOf(t) = {"Overdue"}

-----------------------------------------------------------------------------
(* Claims about what the buckets hold together, under AgingSpec *)

\* the sum of the amounts of a list of transactions
RECURSIVE SumOfAmounts(_)
SumOfAmounts(ts) ==
    IF ts = <<>> THEN 0 ELSE ts[1].amount + SumOfAmounts(Tail(ts))

\* the sum of the totalAmount of the buckets
RECURSIVE SumOfTotals(_)
SumOfTotals(bs) ==
    IF bs = <<>> THEN 0 ELSE bs[1].totalAmount + SumOfTotals(Tail(bs))

\* the number of places of the transaction in the member lists of the buckets
PlacesOf(t) ==
    Cardinality({<<j, i>> \in (1..Len(call.result)) \X (1..MaxAged) :
                    /\ i <= Len(call.result[j].transactions)
                    /\ call.result[j].transactions[i] = t})

\* C21: the five buckets returned by getAgingBuckets conserve the input: their
\* member lists hold each input transaction exactly once and nothing else, the
\* totalAmount of each bucket is the sum of the amounts of its members, the
\* totals add up to the sum of the input amounts, and an empty input gives
\* five buckets without members and with totalAmount 0.
C21_BucketsConserveInput ==
    call.done =>
        /\ Len(call.result) = 5
        /\ \A t \in Range(call.transactions) : PlacesOf(t) = 1
        /\ \A j \in 1..Len(call.result) :
            /\ Range(call.result[j].transactions) \subseteq Range(call.transactions)
            /\ call.result[j].totalAmount = SumOfAmounts(call.result[j].transactions)
        /\ SumOfTotals(call.result) = SumOfAmounts(call.transactions)
        /\ call.transactions = <<>> =>
            \A j \in 1..5 : /\ call.result[j].transactions = <<>>
                            /\ call.result[j].totalAmount = 0
                            /\ call.result[j].label = buckets[j].label

\* two transactions of different amounts were put in one bucket, whose total is
\* the sum of both
C21_Witness ==
    /\ call.done
    /\ Len(call.transactions) = 2
    /\ call.transactions[1].amount # call.transactions[2].amount
    /\ call.result[3].transactions = call.transactions
    /\ call.result[3].totalAmount = 62500

\* the call with no transaction returned the five empty buckets
C21_WitnessEmpty ==
    /\ call.done
    /\ call.transactions = <<>>
    /\ call.result = buckets

-----------------------------------------------------------------------------
(* Claims about the header line of a bank CSV file, under ParseSpec *)

\* the place of the first line that satisfies the header heuristic, or the
\* number of lines when none does
HeaderPlace(lines) ==
    SetMin({i \in 1..Len(lines) : isHeaderLine(lines[i])} \cup {Len(lines)})

HasHeader(lines) == \E i \in 1..Len(lines) : isHeaderLine(lines[i])

\* the places of the lines after the header that are accepted as data rows
AcceptedAfter(lines, header) ==
    {i \in (header + 1)..Len(lines) : RowAccepted(csvParts(lines[i]))}

\* the places of the lines that are accepted when read as data rows
AcceptedAnywhere(lines) ==
    {i \in 1..Len(lines) : RowAccepted(csvParts(lines[i]))}

\* C22: in bank CSV mode no record comes from a line up to and including the
\* first line that satisfies the header heuristic; every later non-empty line
\* is a data row, also when it satisfies the heuristic; a text with no such
\* line gives zero transactions.
C22_HeaderSkippedOnce ==
    BankCSVReturned =>
        LET lines == InkedLines(call.file.content)
        IN  /\ call.result.ok
            /\ ~HasHeader(lines) => call.result.rows = <<>>
            /\ Len(call.result.rows) =
                Cardinality(AcceptedAfter(lines, HeaderPlace(lines)))

\* the line 1/5/50,Posting fee,1.00 was the first line that satisfies the
\* heuristic: it gave no record, and the row after it gave one
C22_Witness ==
    /\ BankCSVReturned
    /\ call.file.content = <<FeeLine, ScenarioLine>>
    /\ isHeaderLine(FeeLine)
    /\ AcceptedAnywhere(call.file.content) = {1, 2}
    /\ Len(call.result.rows) = 1
    /\ call.result.rows[1].description = <<"C", "o", "f", "f", "e", "e", " ", "S", "h", "o", "p">>

\* after the header line the same line is a data row and gives a record
C22_WitnessLaterKeyword ==
    /\ BankCSVReturned
    /\ call.file.content = <<BankHeaderLine, FeeLine, ScenarioLine>>
    /\ Len(call.result.rows) = 2
    /\ call.result.rows[1].description = <<"P", "o", "s", "t", "i", "n", "g", " ", "f", "e", "e">>

\* a text of two acceptable rows without a header line gave nothing
C22_WitnessNoHeader ==
    /\ BankCSVReturned
    /\ Len(call.file.content) = 2
    /\ ~HasHeader(call.file.content)
    /\ AcceptedAnywhere(call.file.content) = {1, 2}
    /\ call.result.rows = <<>>

-----------------------------------------------------------------------------
(* Claims about the lines of a statement read as free text, under ParseSpec *)

\* a call of the bank parser on a file that is not named .csv has returned
BankTextReturned ==
    /\ call.fn = "parseBankPDF" /\ call.done
    /\ ~endsWith(toLowerCase(call.file.name), <<".", "c", "s", "v">>)

\* one of the four date patterns matches in the line
HasDateSubstring(line) == \E k \in 1..Len(datePatterns) : dateTexts(line)[k] # <<>>

\* the match of one of the patterns normalizes to a date
HasNormalizedDate(line) == lineDate(dateTexts(line), call.host) # <<>>

\* the currency-shaped substrings of the line
CurrencyTokens(line) == amountMatches(line, 1)

LastToken(line) == CurrencyTokens(line)[Len(CurrencyTokens(line))]

\* the cleaned description has at least 3 characters
Described(line) ==
    Len(lineDescription(line, dateTexts(line), LastToken(line))) >= 3

\* the record is the one of the line: the magnitude of the last token, debit
\* for a negative token
RecordOfLine(record, line) ==
    /\ record.rawText = line
    /\ record.amount = Abs(parseFloat(plainNumber(LastToken(line))))
    /\ record.type = (IF Head(LastToken(line)) = "-" THEN "debit" ELSE "credit")

\* the records are, in order, those of the lines
RecordsOfLines(records, lines) ==
    /\ Len(records) = Len(lines)
    /\ \A k \in 1..Len(lines) : RecordOfLine(records[k], lines[k])

\* C23: in free-text mode a non-empty line produces a record if and only if
\* it does not satisfy the header heuristic, contains a date substring,
\* contains at least one currency-shaped token and its cleaned description has
\* at least 3 characters; the amount is the magnitude of the last
\* currency-shaped token, the type debit when that token is negative and
\* credit otherwise.
C23_LineAcceptedIff ==
    BankTextReturned =>
        RecordsOfLines(call.result.rows,
                       SelectSeq(InkedLines(call.file.content),
                                 LAMBDA line : /\ ~isHeaderLine(line)
                                               /\ HasDateSubstring(line)
                                               /\ CurrencyTokens(line) # <<>>
                                               /\ Described(line)))

\* the same with the date condition of the code: the match of a date pattern
\* normalizes to a date
C23_WithNormalizedDate ==
    BankTextReturned =>
        RecordsOfLines(call.result.rows,
                       SelectSeq(InkedLines(call.file.content),
                                 LAMBDA line : /\ ~isHeaderLine(line)
                                               /\ HasNormalizedDate(line)
                                               /\ CurrencyTokens(line) # <<>>
                                               /\ Described(line)))

\* the line 2024-1-5,Coffee Shop,5.00 has a match of the pattern YYYY-M-D, a
\* currency token and a description, and gave no record: the native parsing
\* of 2024-1-5 gave an invalid date
C23_DateNotNormalized ==
    /\ BankTextReturned
    /\ call.file.content = << <<"2", "0", "2", "4", "-", "1", "-", "5", ",", "C", "o", "f", "f", "e", "e", " ", "S", "h", "o", "p", ",", "5", ".", "0", "0">> >>
    /\ HasDateSubstring(call.file.content[1])
    /\ CurrencyTokens(call.file.content[1]) = << <<",", "5", ".", "0", "0">> >>
    /\ Described(call.file.content[1])
    /\ call.result.rows = <<>>

\* the line with the tokens -3.00 and ,12.50 (the pattern takes the comma in)
\* gave a credit of 12.50
C23_LastTokenTaken ==
    /\ BankTextReturned
    /\ call.file.content = <<TwoAmountsLine>>
    /\ CurrencyTokens(TwoAmountsLine) = << <<"-", "3", ".", "0", "0">>, <<",", "1", "2", ".", "5", "0">> >>
    /\ Len(call.result.rows) = 1
    /\ call.result.rows[1].amount = 12500
    /\ call.result.rows[1].type = "credit"
    /\ call.result.rows[1].description = <<"C", "o", "f", "f", "e", "e", " ", "S", "h", "o", "p", " ", "-", "3", " ", "0", "0">>

\* a debit line next to a line rejected for its description of two characters
C23_ShortDescriptionRejected ==
    /\ BankTextReturned
    /\ call.file.content = <<ScenarioLine, <<"2", "0", "2", "4", "-", "0", "1", "-", "0", "5", ",", "a", "b", ",", "1", "2", ".", "5", "0">> >>
    /\ Len(call.result.rows) = 1
    /\ call.result.rows[1].type = "debit"
    /\ call.result.rows[1].amount = 12500

-----------------------------------------------------------------------------
(* Claims about the amounts of the bank transactions parsed, under ParseSpec *)

\* a call of the bank parser has returned
BankReturned == call.fn = "parseBankPDF" /\ call.done

\* a whole number of cents: amounts are counted in thousandths
WholeCents(amount) == amount # NaN /\ amount % 10 = 0

\* C24: every BankTransaction produced by the bank statement parser, in CSV
\* mode and in free-text mode, has an amount that is non-negative and is a
\* whole number of cents.
C24_NonNegativeCents ==
    BankReturned =>
        \A k \in 1..Len(call.result.rows) :
            /\ call.result.rows[k].amount >= 0
            /\ WholeCents(call.result.rows[k].amount)

\* in both modes the amount is a number and is not negative
C24_NonNegative ==
    BankReturned =>
        \A k \in 1..Len(call.result.rows) :
            call.result.rows[k].amount # NaN /\ call.result.rows[k].amount >= 0

\* in free-text mode the amount is a whole number of cents
C24_FreeTextCents ==
    BankTextReturned =>
        \A k \in 1..Len(call.result.rows) : WholeCents(call.result.rows[k].amount)

\* in CSV mode the row whose last field is $3.005 gave the amount 3.005
C24_ThirdDecimalKept ==
    /\ BankCSVReturned
    /\ call.file.content = <<BankHeaderLine, QuotedLine>>
    /\ Len(call.result.rows) = 1
    /\ call.result.rows[1].amount = 3005
    /\ call.result.rows[1].description = <<"C", "o", "f", "f", "e", "e", " ", "S", "h", "o", "p">>

\* in free-text mode the same line gave the amount 3.00 of the token $3.00
C24_FreeTextToken ==
    /\ BankTextReturned
    /\ call.file.content = <<QuotedLine>>
    /\ CurrencyTokens(trim(QuotedLine)) = << <<"$", "3", ".", "0", "0">> >>
    /\ Len(call.result.rows) = 1
    /\ call.result.rows[1].amount = 3000

-----------------------------------------------------------------------------
(* Claims about normalizeDate, under ParseSpec: the dates of the records
   against the date fields they were read from *)

\* the year, month and day that a string of the form YYYY-MM-DD writes
NumbersOf(iso) ==
    <<digitsValue(SubSeq(iso, 1, 4)), digitsValue(SubSeq(iso, 6, 7)),
      digitsValue(SubSeq(iso, 9, 10))>>

\* the year of a two-digit year
PivotYear(yy) == IF yy < 50 THEN 2000 + yy ELSE 1900 + yy

\* the numbers between the separators of a date written M/D/Y or M-D-Y
PartsOf(raw) == split(raw, DateSeparators)

\* what the claim says of normalizeDate(raw) = normalized
NormalizedAsClaimed(raw, normalized) ==
    /\ isoShape(raw) => normalized = raw
    /\ monthDayYear(PartsOf(raw), 4) =>
        /\ isoShape(normalized)
        /\ NumbersOf(normalized) = <<digitsValue(PartsOf(raw)[3]),
                                     digitsValue(PartsOf(raw)[1]),
                                     digitsValue(PartsOf(raw)[2])>>
    /\ monthDayYear(PartsOf(raw), 2) =>
        /\ isoShape(normalized)
        /\ NumbersOf(normalized) = <<PivotYear(digitsValue(PartsOf(raw)[3])),
                                     digitsValue(PartsOf(raw)[1]),
                                     digitsValue(PartsOf(raw)[2])>>

\* the receipts read from rows that have the field `date`
DatedSurvivors == {k \in 1..Len(Survivors) : <<"d", "a", "t", "e">> \in DOMAIN Survivors[k]}

\* C25: normalizeDate returns an input of the form YYYY-MM-DD unchanged, turns
\* M/D/YYYY or M-D-YYYY into YYYY-MM-DD with month and day padded to two
\* digits, and gives M/D/YY the year 2000+yy when yy < 50 and 1900+yy when
\* yy >= 50.
C25_NormalizedDates ==
    /\ BankCSVReturned =>
        LET accepted == AcceptedRows
        IN  \A k \in 1..Len(accepted) :
                NormalizedAsClaimed(accepted[k][1], call.result.rows[k].date)
    /\ (JobberReturned /\ (ByExcel \/ ByCSV)) =>
        \A k \in DatedSurvivors :
            NormalizedAsClaimed(property(Survivors[k], <<"d", "a", "t", "e">>), Receipts[k].date)

\* the statement with the dates 1/5/50 and 12/31/49: 1950-01-05 and 2049-12-31
C25_Witness ==
    /\ BankCSVReturned
    /\ call.file.content = <<BankHeaderLine, FeeLine, TwoAmountsLine>>
    /\ Len(call.result.rows) = 2
    /\ call.result.rows[1].date = <<"1", "9", "5", "0", "-", "0", "1", "-", "0", "5">>
    /\ call.result.rows[2].date = <<"2", "0", "4", "9", "-", "1", "2", "-", "3", "1">>

\* the receipt dated 1-5-2024 has the date 2024-01-05
C25_WitnessDashes ==
    /\ JobberReturned /\ Len(Receipts) = 1 /\ Len(RowObjects) = 1
    /\ property(RowObjects[1], <<"d", "a", "t", "e">>) = <<"1", "-", "5", "-", "2", "0", "2", "4">>
    /\ Receipts[1].date = <<"2", "0", "2", "4", "-", "0", "1", "-", "0", "5">>

\* the date 2024-01-05 of Scenario A is kept
C25_WitnessUnchanged ==
    /\ BankCSVReturned
    /\ call.file.content = <<BankHeaderLine, ScenarioLine>>
    /\ csvParts(ScenarioLine)[1] = call.result.rows[1].date

-----------------------------------------------------------------------------
(* Claims about the fields that findExactMatches does not read, under
   MatchSpec: the run of the call against runs on the same records with
   other values in those fields *)

\* the values given to the type, description and rawText of the bank
\* transactions, and to the employee, job, description and category of the
\* receipts
BankLabels ==
    <<[type |-> "debit", description |-> "Coffee Shop", rawText |-> "line"],
      [type |-> "credit", description |-> "Refund", rawText |-> ""]>>

ReceiptLabels ==
    <<[employee |-> "Jane Doe", job |-> "ABC123", description |-> "lunch",
       category |-> "meals"],
      [employee |-> "Unknown", job |-> "GENERAL", description |-> "",
       category |-> ""]>>

\* three ways of labelling n records: all with the second label, or the two
\* labels in turn, starting with either
Labellings(labels, n) ==
    <<[i \in 1..n |-> labels[2]],
      [i \in 1..n |-> labels[1 + (i % 2)]],
      [i \in 1..n |-> labels[2 - (i % 2)]]>>

\* the bank transactions with the i-th one labelled by labels[i]
LabelledBank(banks, labels) ==
    [i \in 1..Len(banks) |->
        [id |-> banks[i].id, date |-> banks[i].date, amount |-> banks[i].amount,
         type |-> labels[i].type, description |-> labels[i].description,
         rawText |-> labels[i].rawText]]

\* the receipts with the receipt of the id n labelled by labels[n]
LabelledReceipts(receipts, labels) ==
    [i \in 1..Len(receipts) |->
        [id |-> receipts[i].id, date |-> receipts[i].date,
         amount |-> receipts[i].amount,
         employee |-> labels[receipts[i].id].employee,
         job |-> labels[receipts[i].id].job,
         description |-> labels[receipts[i].id].description,
         category |-> labels[receipts[i].id].category]]

\* the pairs of the run on the records labelled in the k-th way; the sort,
\* which compares the dates only, returns the order it returned for the call
LabelledPairs(k) ==
    Pairs(findExactMatches(
            LabelledBank(call.banks, Labellings(BankLabels, Len(call.banks))[k]),
            LabelledReceipts(call.sorted,
                             Labellings(ReceiptLabels, Len(call.receipts))[k]),
            clock, nextId.match))

\* C26: the pairs of findExactMatches depend only on the ids, amounts, dates
\* and order of the records: runs that differ only in the type, description
\* and rawText of the bank transactions and in the employee, job, description
\* and category of the receipts give the same (bankId, receiptId) pairs; a
\* credit is paired like a debit.
C26_PairsIgnoreOtherFields ==
    Len(call.runs) = 1 => \A k \in 1..3 : LabelledPairs(k) = Pairs(call.runs[1])

\* the call paired two bank transactions, and so did the run in which the
\* first of them is a credit and the second a debit
C26_Witness ==
    /\ Len(call.runs) = 1
    /\ Len(call.runs[1]) = 2
    /\ Len(call.banks) = 2
    /\ LabelledBank(call.banks, Labellings(BankLabels, 2)[2])[1].type = "credit"
    /\ LabelledBank(call.banks, Labellings(BankLabels, 2)[2])[2].type = "debit"
    /\ Cardinality(LabelledPairs(2)) = 2
    /\ <<call.banks[1].id, call.runs[1][1].receiptId>> \in LabelledPairs(2)

-----------------------------------------------------------------------------
(* Claims about the clear buttons, under Spec *)

\* C27: after the prompt 'Clear all bank transactions?' is confirmed the
\* stored bank collection is empty, after 'Clear all Jobber receipts?' the
\* stored receipt collection is empty, and after 'Clear all data?' the bank,
\* receipt and match collections are all empty.
C27_ClearedAfterConfirm ==
    /\ call.fn = "handleClearBank" => bankTransactions = <<>>
    /\ call.fn = "handleClearJobber" => jobberReceipts = <<>>
    /\ call.fn = "clearAllData" =>
        bankTransactions = <<>> /\ jobberReceipts = <<>> /\ matches = <<>>

\* 'Clear all data?' by itself does what the claim says
C27_ClearAllDataEmpties ==
    call.fn = "clearAllData" =>
        bankTransactions = <<>> /\ jobberReceipts = <<>> /\ matches = <<>>

\* the two trash buttons leave the three collections as they were
C27_TrashButtonsKeepStore ==
    call.fn \in {"handleClearBank", "handleClearJobber"} => Store = call.store

\* the bank trash button was confirmed and the transactions are still stored
C27_BankStillStored ==
    /\ call.fn = "handleClearBank"
    /\ Len(bankTransactions) > 0
    /\ bankJob = NoJob /\ bankStatus = NoStatus

\* the button 'Clear all data' emptied a store that held a match
C27_AllDataCleared ==
    /\ call.fn = "clearAllData"
    /\ Len(call.store.matches) > 0
    /\ Store = [bankTransactions |-> <<>>, jobberReceipts |-> <<>>, matches |-> <<>>]

-----------------------------------------------------------------------------
(* Claims about what an upload leaves in place, under Spec *)

\* the dates and amounts of a list of records
RowsOfRecords(records) ==
    [i \in 1..Len(records) |-> <<records[i].date, records[i].amount>>]

\* C28: addBankTransactions and addJobberReceipts only append: the records
\* stored before the call are still stored, unchanged and in their order, the
\* new records follow in the order given, none is dropped as a duplicate, and
\* the other collection is not modified.
C28_OnlyAppend ==
    /\ call.fn = "addBankTransactions" =>
        /\ bankTransactions = call.store.bankTransactions \o call.transactions
        /\ jobberReceipts = call.store.jobberReceipts
    /\ call.fn = "addJobberReceipts" =>
        /\ jobberReceipts = call.store.jobberReceipts \o call.receipts
        /\ bankTransactions = call.store.bankTransactions

\* a second bank batch of two transactions was added to a stored transaction
\* that has the date and the amount of one of them
C28_Witness ==
    /\ call.fn = "addBankTransactions"
    /\ Len(call.store.bankTransactions) = 1
    /\ Len(call.transactions) = 2
    /\ RowsOfRecords(call.transactions)[1] # RowsOfRecords(call.transactions)[2]
    /\ RowsOfRecords(call.store.bankTransactions)[1] = RowsOfRecords(call.transactions)[2]
    /\ Len(bankTransactions) = 3

\* a second batch of receipts was added to the stored receipts
C28_WitnessReceipts ==
    /\ call.fn = "addJobberReceipts"
    /\ Len(call.store.jobberReceipts) > 0
    /\ Len(call.receipts) > 1
    /\ Len(jobberReceipts) = Len(call.store.jobberReceipts) + Len(call.receipts)

-----------------------------------------------------------------------------
(* Claims about the loading flag of an upload panel, under Spec and FairSpec *)

\* the application with every parse settling in the end: file.text(), the
\* FileReader and Papa.parse resolve or reject the promise that the loop awaits
FairSpec ==
    /\ Spec
    /\ WF_vars(BankFileSettles) /\ WF_vars(BankBatchEnds)
    /\ WF_vars(JobberFileSettles) /\ WF_vars(JobberBatchEnds)

\* the status line shows a result
IsResult(status) == status.type \in {"success", "error"}

\* a parse of the batch is awaited
InFlight(job) == job.pc = "await"

\* C29: from the start of a batch until its last file has been processed the
\* loading flag of its panel is true, which disables the dropzone of the panel,
\* so that no second batch of the panel can start.
C29_LoadingWhileBatchRuns ==
    /\ InFlight(bankJob) => isBankLoading
    /\ InFlight(jobberJob) => isJobberLoading

\* C29 fails: files of a bank batch remain to be parsed, one of them has
\* failed, and the bank dropzone that is displayed is enabled and shows no
\* status
C29_DropzoneEnabledInFlight ==
    /\ InFlight(bankJob)
    /\ bankJob.files = 3
    /\ bankJob.errorCount = 1
    /\ ~isBankLoading
    /\ bankStatus = NoStatus

\* C29 while the UploadSection of the batch stays mounted
C29_LoadingWhileMounted ==
    /\ InFlight(bankJob) /\ bankJob.mounted => isBankLoading
    /\ InFlight(jobberJob) /\ jobberJob.mounted => isJobberLoading
    /\ isBankLoading => InFlight(bankJob)
    /\ isJobberLoading => InFlight(jobberJob)

\* at the end of a batch of a mounted UploadSection the loading flag is false
\* and the status is success or error
C29_EndReported ==
    [][/\ (InFlight(bankJob) /\ bankJob.mounted /\ bankJob'.pc = "done")
            => (~isBankLoading' /\ IsResult(bankStatus'))
       /\ (InFlight(jobberJob) /\ jobberJob.mounted /\ jobberJob'.pc = "done")
            => (~isJobberLoading' /\ IsResult(jobberStatus'))]_vars

\* every started batch stops awaiting: it reaches its end, or the page is
\* reloaded
C29_EveryBatchEnds ==
    /\ InFlight(bankJob) ~> ~InFlight(bankJob)
    /\ InFlight(jobberJob) ~> ~InFlight(jobberJob)

\* a bank batch of three files, of which two failed, has ended with an error
\* status and the loading flag false
C29_EndedWithFailures ==
    /\ bankJob.pc = "done" /\ bankJob.mounted
    /\ bankJob.files = 3 /\ bankJob.errorCount = 2
    /\ ~isBankLoading
    /\ bankStatus.type = "error"

-----------------------------------------------------------------------------
(* Claims about the status line of an upload panel, under Spec *)

\* the last drop of the panel was a batch of files that has ended
Finished(job) == job.pc = "done" /\ job.files > 0

\* the batch is being processed in the UploadSection that is displayed
Running(job) == job.pc = "await" /\ job.mounted


\* The timeouts of a panel all wait 8000 ms, so they fire in the order in which
\* they were scheduled: while one is pending, the one scheduled last is.

\* C30: the result status of a finished batch stays displayed until the
\* timeout that this batch scheduled fires, and the loading status of a running
\* batch stays displayed while the batch runs: a timeout that an earlier batch
\* of the panel scheduled clears neither.
C30_StatusKeptUntilOwnTimer ==
    /\ Running(bankJob) => bankStatus.type = "loading"
    /\ Running(jobberJob) => jobberStatus.type = "loading"
    /\ Finished(bankJob) /\ timers.bank > 0 => IsResult(bankStatus)
    /\ Finished(jobberJob) /\ timers.jobber > 0 => IsResult(jobberStatus)

\* the status of a running bank batch was cleared by the timeout of the
\* batch that ended before it, whose transaction is stored
C30_LoadingCleared ==
    /\ started.bank = 2
    /\ Len(bankTransactions) = 1
    /\ Running(bankJob)
    /\ isBankLoading
    /\ bankStatus = NoStatus
    /\ timers.bank = 0

\* the result of the second batch of receipts was cleared while the timeout
\* that this batch scheduled is pending
C30_ResultClearedEarly ==
    /\ started.jobber = 2
    /\ Finished(jobberJob)
    /\ Len(jobberJob.uploaded) = 1
    /\ Len(jobberReceipts) > Len(jobberJob.uploaded[1])
    /\ jobberStatus = NoStatus
    /\ timers.jobber = 1

\* with one timeout scheduled on the panel, a result is displayed until it
\* fires
C30_SingleTimerKeepsResult ==
    /\ Finished(bankJob) /\ started.bank = 1 /\ timers.bank > 0
        => IsResult(bankStatus)
    /\ Finished(jobberJob) /\ started.jobber = 1 /\ timers.jobber > 0
        => IsResult(jobberStatus)
    /\ Running(bankJob) /\ started.bank = 1 => bankStatus.type = "loading"
    /\ Running(jobberJob) /\ started.jobber = 1 => jobberStatus.type = "loading"

====
